---------------------------- MODULE Spec2Model ----------------------------
(***************************************************************************)
(* Verification pipeline of the scribe CLI (package verify, package llm,   *)
(* cmd/scribe): the report builder, the per-reference verifiers, the file  *)
(* orchestrator VerifyFile / VerifyFiles and the verify command.           *)
(*                                                                         *)
(* Text is modelled at word level: a line is a sequence of words, a word   *)
(* is a string, and the regular expressions of the source are matched on   *)
(* words (a pattern is the set of word n-grams it accepts).                *)
(***************************************************************************)
EXTENDS Integers, Sequences, FiniteSets, TLC

VARIABLES
    files,        \* ReportBuilder.files
    results,      \* ReportBuilder.results
    report,       \* the VerificationReport last returned by Build
    pc,           \* position of the run inside verifyCmd / VerifyFiles / VerifyFile
    useLLM,       \* Options.UseLLM of the run
    args,         \* the input file paths, in order
    fileIdx,      \* index into args of the file being verified
    lines,        \* VerifyFile: the lines of the current file
    work,         \* VerifyFile: the extracted references and sentences
    k,            \* VerifyFile: index of the next reference / sentence of the phase
    out,          \* VerifyFile: its local results slice
    call,         \* the last verifier call: inputs, oracle answers, outcome
    exitStatus,   \* exit status of the scribe process, -1 while it runs
    linesRead,    \* lines read by the run so far
    queue,        \* the candidates of the queue file, in file order
    rejected,     \* the candidates of the rejected file, in file order
    clock,        \* the wall clock, in minutes
    stored,       \* the checkpoint file of the CheckpointStore
    procs,        \* the scribe processes working on the queue files
    acked         \* the queue operations that have returned success to a process

builderVars == <<files, results, report>>
runVars ==
    <<pc, useLLM, args, fileIdx, lines, work, k, out, call, exitStatus, linesRead>>
svcVars == <<queue, rejected, clock, stored, procs, acked>>
vars ==
    <<files, results, report, pc, useLLM, args, fileIdx, lines, work, k, out, call,
      exitStatus, linesRead, queue, rejected, clock, stored, procs, acked>>

\* ------------------------------------------------------------------ bounds

\* Longest outcome list handed to a ReportBuilder through its API.
MaxResults == 3
\* Most AddFile calls on a ReportBuilder through its API.
MaxAddFiles == 2

\* ------------------------------------------------------------------- types

CheckTypeCitation == "citation"
CheckTypeURL == "url"
CheckTypeCodeLink == "code-link"
CheckTypeClaim == "claim"
CheckTypeTodoMarker == "todo-marker"

CheckStatusPass == "pass"
CheckStatusFail == "fail"
CheckStatusWarn == "warn"

CheckStatus == {CheckStatusPass, CheckStatusFail, CheckStatusWarn}

\* The four optional members of VerificationDetails; present = FALSE is the
\* nil pointer, the other fields then hold Go's zero values.
NoCitation == [present |-> FALSE, PaperID |-> "", Resolved |-> FALSE]
NoURL == [present |-> FALSE, HasStatus |-> FALSE, HTTPStatus |-> 0, Error |-> ""]
NoCodeLink ==
    [present |-> FALSE, Permalink |-> "", FileExists |-> FALSE, LineRangeValid |-> FALSE]
NoClaim == [present |-> FALSE, Confidence |-> "", SuggestedAction |-> ""]

NoDetails ==
    [Citation |-> NoCitation, URL |-> NoURL, CodeLink |-> NoCodeLink, Claim |-> NoClaim]

\* A VerificationResult (CheckID and CheckedAt, a fresh uuid and the clock,
\* play no part in any decision and are left out).
Result(type, file, line, text, status, message, details) ==
    [CheckType |-> type, File |-> file, Line |-> line, Text |-> text,
     Status |-> status, Message |-> message, Details |-> details]

\* A message built by fmt.Sprintf: the format, the reference it names, the
\* embedded error text and the embedded number.
Msg(format, subject, err, num) ==
    [format |-> format, subject |-> subject, err |-> err, num |-> num]

NoMsg == Msg("", "", "", 0)

ZeroSummary == [TotalChecks |-> 0, Passed |-> 0, Failed |-> 0, Warnings |-> 0]

\* No report has been built yet.
NoReport ==
    [built |-> FALSE, ContentFiles |-> <<>>, Summary |-> ZeroSummary,
     Results |-> <<>>, ExitCode |-> 0]

\* -------------------------------------------------------------------- text

\* The code-fence marker (three backquotes), alone and followed by "json"; the
\* backquote cannot be written in a string of this module.
Fence == "~~~"
FenceJson == "~~~json"

\* Sentence terminators of splitSentences.
Terminators == {".", "?", "!"}

\* Words that carry an attribution marker, with the token citationPattern
\* captures from each.
CiteWords == {"@paper:a", "[@paper:a]", "@paper:b"}

CiteToken(w) == IF w = "@paper:b" THEN "b" ELSE "a"

\* Words todoMarkerPattern matches.
TodoWords == {"TODO", "FIXME", "XXX", "HACK"}

\* Words urlPattern matches, and those among them that githubPermalinkPattern
\* matches, with the capture groups of the match.
PlainURL == "http://localhost/x"
ShortShaLink == "https://github.com/o/r/blob/abc123/f.go#L10-L20"
LongShaLink == "https://github.com/o/r/blob/abc123def456/f.c#L42"
ReversedLink == "https://github.com/o/r/blob/abc123def456/f.c#L20-L10"

URLWords == {PlainURL, ShortShaLink, LongShaLink, ReversedLink}
PermalinkWords == {ShortShaLink, LongShaLink, ReversedLink}

\* m[1..6] of githubPermalinkPattern on a permalink word; m[6] = "" when the
\* URL has no -L<end> part (hasEnd = FALSE).
PermalinkGroups(w) ==
    IF w = ShortShaLink
    THEN [owner |-> "o", repo |-> "r", sha |-> "abc123", path |-> "f.go",
          start |-> 10, hasEnd |-> TRUE, end |-> 20]
    ELSE IF w = ReversedLink
    THEN [owner |-> "o", repo |-> "r", sha |-> "abc123def456", path |-> "f.c",
          start |-> 20, hasEnd |-> TRUE, end |-> 10]
    ELSE [owner |-> "o", repo |-> "r", sha |-> "abc123def456", path |-> "f.c",
          start |-> 42, hasEnd |-> FALSE, end |-> 0]

\* strings.Contains(url, "github.com") && strings.Contains(url, "/blob/")
IsGithubBlob(w) == w \in PermalinkWords

\* The lines a file is made of.
LMust == <<"method", "A", "is", "faster", "than", "method", "B", ".">>
LMustCited == <<"it", "is", "faster", "than", "that", "@paper:b", ".">>
LTwo == <<"see", "[@paper:a]", ".",
          "it", "was", "discovered", "by", "someone", "else", ".">>
LShould == <<"this", "causes", "the", "likelihood", "to", "decrease", ".">>
LMustShould == <<"historically", "it", "is", "faster", "than", "that", ".">>
LExemptAll == <<"historically", "faster", "than", "means", "quicker", "than", "others", ".">>
LPlain == <<"the", "tree", "has", "many", "long", "branches", ".">>
LTodo == <<"TODO", ":", "fix", "this">>
LHeader == <<"#", "it", "is", "faster", "than", "that", "one">>
LURL == <<PlainURL>>
LLinkShort == <<ShortShaLink>>
LLinkLong == <<LongShaLink>>

LineSet ==
    {LMust, LMustCited, LTwo, LShould, LMustShould, LExemptAll, LPlain,
     LTodo, LHeader, LURL, LLinkShort, LLinkLong}

\* The words of a text in order: the lines of a file, concatenated.
RECURSIVE Flatten(_)
Flatten(ls) == IF ls = <<>> THEN <<>> ELSE Head(ls) \o Flatten(Tail(ls))

\* len(sentence): the bytes of the words, one space between two words, none
\* before a terminator or a colon.
RECURSIVE Chars(_)
Chars(ws) ==
    IF ws = <<>> THEN 0
    ELSE IF Len(ws) = 1 THEN Len(ws[1])
    ELSE Len(ws[1]) + (IF ws[2] \in Terminators \cup {":"} THEN 0 ELSE 1)
             + Chars(Tail(ws))

\* The pieces the terminators inside a word cut it into, each piece ending
\* with its terminator but the last: only the permalinks have inner dots.
Fragments(w) ==
    IF w = ShortShaLink
    THEN <<"https://github.", "com/o/r/blob/abc123/f.", "go#L10-L20">>
    ELSE IF w = LongShaLink
    THEN <<"https://github.", "com/o/r/blob/abc123def456/f.", "c#L42">>
    ELSE IF w = ReversedLink
    THEN <<"https://github.", "com/o/r/blob/abc123def456/f.", "c#L20-L10">>
    ELSE <<w>>

\* splitSentences: cut after every terminator, keep a non-empty remainder.
RECURSIVE SplitFrom(_, _, _)
SplitFrom(ws, current, sentences) ==
    IF ws = <<>>
    THEN IF current # <<>> THEN Append(sentences, current) ELSE sentences
    ELSE LET fr == Fragments(Head(ws))
             cur == Append(current, fr[1])
             inner == [i \in 1..(Len(fr) - 2) |-> <<fr[i + 1]>>]
         IN IF Len(fr) > 1
            THEN SplitFrom(Tail(ws), <<fr[Len(fr)]>>, Append(sentences, cur) \o inner)
            ELSE IF Head(ws) \in Terminators
            THEN SplitFrom(Tail(ws), <<>>, Append(sentences, cur))
            ELSE SplitFrom(Tail(ws), cur, sentences)

splitSentences(text) == SplitFrom(text, <<>>, <<>>)

\* citationPattern.MatchString
HasCiteMarker(ws) == \E i \in 1..Len(ws) : ws[i] \in CiteWords

\* ExtractCitations: every captured token, first occurrence only, in order.
RECURSIVE CitationsFrom(_, _)
CitationsFrom(ws, citations) ==
    IF ws = <<>> THEN citations
    ELSE LET w == Head(ws)
             seen == {citations[i] : i \in 1..Len(citations)}
         IN IF w \in CiteWords /\ CiteToken(w) \notin seen
            THEN CitationsFrom(Tail(ws), Append(citations, CiteToken(w)))
            ELSE CitationsFrom(Tail(ws), citations)

\* An extractor that keeps every occurrence.
ExtractCitationsAll(content) ==
    LET tokens == SelectSeq(content, LAMBDA w : w \in CiteWords)
    IN [i \in 1..Len(tokens) |-> CiteToken(tokens[i])]

ExtractCitations(content) == CitationsFrom(content, <<>>)

\* FindAllString of a word set over a text.
RECURSIVE FindAll(_, _)
FindAll(ws, set) ==
    IF ws = <<>> THEN <<>>
    ELSE IF Head(ws) \in set THEN <<Head(ws)>> \o FindAll(Tail(ws), set)
    ELSE FindAll(Tail(ws), set)

ExtractURLs(content) == FindAll(content, URLWords)

\* ExtractCodeLinks: end defaults to start when m[6] is empty.
CodeLinkMatch(w) ==
    LET m == PermalinkGroups(w)
    IN [FullURL |-> w, Owner |-> m.owner, Repo |-> m.repo, CommitSHA |-> m.sha,
        FilePath |-> m.path, StartLine |-> m.start,
        EndLine |-> IF m.hasEnd THEN m.end ELSE m.start]

ExtractCodeLinks(content) ==
    LET ws == FindAll(content, PermalinkWords)
    IN [i \in 1..Len(ws) |-> CodeLinkMatch(ws[i])]

\* strings.Contains(line, substr) for the substrings VerifyFile looks up: a
\* citation marker "@paper:"+token, a URL.
LineContainsCite(line, token) ==
    \E i \in 1..Len(line) : line[i] \in CiteWords /\ CiteToken(line[i]) = token

LineContainsWord(line, w) == \E i \in 1..Len(line) : line[i] = w

\* findLineNumber: the first line (1-based) that contains it, 0 if none.
FirstOf(hits) == IF hits = {} THEN 0 ELSE CHOOSE i \in hits : \A j \in hits : i <= j

findLineNumberCite(ls, token) ==
    FirstOf({i \in 1..Len(ls) : LineContainsCite(ls[i], token)})

findLineNumber(ls, w) == FirstOf({i \in 1..Len(ls) : LineContainsWord(ls[i], w)})

\* lineText of VerifyFile: lines[lineNum-1] when lineNum is in range, else "".
LineText(ls, lineNum) ==
    IF lineNum > 0 /\ lineNum <= Len(ls) THEN ls[lineNum] ELSE <<>>

\* ------------------------------------------------------------ claim patterns

\* A pattern is the set of word n-grams it accepts; an anchored pattern must
\* match at the start of the sentence.
Pattern(anchored, grams) == [anchored |-> anchored, grams |-> grams]

Pairs(firsts, seconds) == {<<a, b>> : a \in firsts, b \in seconds}

mustCitePatterns ==
    << Pattern(FALSE, Pairs({"40%", "2x", "faster", "slower", "better", "worse"}, {"than"})),
       Pattern(FALSE, Pairs({"discovered", "introduced", "invented", "developed"}, {"by"})),
       Pattern(FALSE, {<<"as", "shown", "by">>, <<"according", "to", "by">>}),
       Pattern(FALSE, {<<"studies", "shown">>, <<"studies", "have", "shown">>}) >>

shouldCitePatterns ==
    << Pattern(FALSE, {<<"cause">>, <<"causes">>, <<"leads", "to">>, <<"results", "in">>}),
       Pattern(FALSE, {<<"complexity", "of">>}),
       Pattern(FALSE, {<<"historically">>, <<"traditionally">>, <<"originally">>}) >>

exemptPatterns ==
    << Pattern(FALSE, {<<"is", "defined", "as">>, <<"refers", "to">>, <<"means">>}),
       Pattern(FALSE, {<<"for", "example">>, <<"such", "as">>}),
       Pattern(FALSE, {<<"in", "this", "section">>, <<"we", "now">>, <<"let", "us">>}),
       Pattern(TRUE, {<<Fence>>}) >>

GramAt(ws, i, g) == i + Len(g) - 1 <= Len(ws) /\ SubSeq(ws, i, i + Len(g) - 1) = g

\* p.MatchString(sentence)
MatchString(p, ws) ==
    \E g \in p.grams :
        \E i \in 1..Len(ws) : (p.anchored => i = 1) /\ GramAt(ws, i, g)

\* for _, p := range patterns { if p.MatchString(sentence) { return ... } }
AnyMatch(patterns, ws) == \E i \in 1..Len(patterns) : MatchString(patterns[i], ws)

Judgment(needs, confidence, reason) ==
    [needsCitation |-> needs, confidence |-> confidence, reason |-> reason]

\* The heuristics with the must-cite tier tried before the exemptions.
AnalyzeMustFirst(sentence) ==
    IF AnyMatch(mustCitePatterns, sentence)
    THEN Judgment(TRUE, "high", "comparison, attribution, or prior work")
    ELSE IF AnyMatch(exemptPatterns, sentence)
    THEN Judgment(FALSE, "high", "definition, example, or transitional prose")
    ELSE IF AnyMatch(shouldCitePatterns, sentence)
    THEN Judgment(TRUE, "medium", "causal claim or complexity statement")
    ELSE Judgment(FALSE, "low", "no citation-requiring patterns")

AnalyzeClaimWithHeuristics(sentence) ==
    IF AnyMatch(exemptPatterns, sentence)
    THEN Judgment(FALSE, "high", "definition, example, or transitional prose")
    ELSE IF AnyMatch(mustCitePatterns, sentence)
    THEN Judgment(TRUE, "high", "comparison, attribution, or prior work")
    ELSE IF AnyMatch(shouldCitePatterns, sentence)
    THEN Judgment(TRUE, "medium", "causal claim or complexity statement")
    ELSE Judgment(FALSE, "low", "no citation-requiring patterns")

\* ------------------------------------------------------------------ oracles
\* Every oracle is an external program or server; what it answers to one
\* call is an input of that call.

\* llm.NewClient on the programs exec.LookPath finds: claude if installed, else ollama, else an error.
NewClient(path) ==
    IF "claude" \in path THEN [err |-> FALSE, provider |-> "claude"]
    ELSE IF "ollama" \in path THEN [err |-> FALSE, provider |-> "ollama"]
    ELSE [err |-> TRUE, provider |-> ""]

\* llm.IsAvailable
IsAvailable(path) == ~NewClient(path).err

\* JSON objects the text-completion oracle may print, and what
\* json.Unmarshal makes of each.
JsonNeedsMedium == "{needs_citation: true, confidence: medium}"
JsonNoNeedHigh == "{needs_citation: false, confidence: high}"
JsonObjects == {JsonNeedsMedium, JsonNoNeedHigh}

Unmarshal(chunk) ==
    IF chunk = JsonNeedsMedium
    THEN [needsCitation |-> TRUE, confidence |-> "medium", reason |-> "oracle"]
    ELSE [needsCitation |-> FALSE, confidence |-> "high", reason |-> "oracle"]

\* What one run of the provider's command yields: an error, or its output
\* as a sequence of chunks (a fence marker, a JSON object, prose).
NoReply == [err |-> TRUE, text |-> <<>>]

LLMReplies ==
    {NoReply,
     [err |-> FALSE, text |-> <<"I think it needs one">>],
     [err |-> FALSE, text |-> <<FenceJson, JsonNeedsMedium, Fence>>],
     [err |-> FALSE, text |-> <<Fence, JsonNoNeedHigh, Fence>>]}
    \cup {[err |-> FALSE, text |-> <<j>>] : j \in JsonObjects}

\* The oracle was not asked.
NotAsked == [path |-> {}, clientPath |-> {}, reply |-> NoReply]

\* What the oracle side answers to one VerifyClaim: the providers
\* exec.LookPath finds when IsAvailable runs (path), those it finds when
\* NewClient runs next (clientPath; the two lookups are separate, a
\* provider can vanish in between), and the reply of the provider's
\* command. With no provider nothing is run; the replies are those of
\* claude, ollama answers with a bare object.
LLMAnswers ==
    {NotAsked,
     [path |-> {"claude"}, clientPath |-> {}, reply |-> NoReply],
     [path |-> {"ollama"}, clientPath |-> {"ollama"},
      reply |-> [err |-> FALSE, text |-> <<JsonNeedsMedium>>]]}
    \cup {[path |-> {"claude"}, clientPath |-> {"claude"}, reply |-> r] :
             r \in LLMReplies}

\* extractJSON: drop a leading fence marker and everything from the next one.
UpToFence(text) ==
    LET fences == {i \in 1..Len(text) : text[i] = Fence}
    IN IF fences = {} THEN text
       ELSE SubSeq(text, 1, (CHOOSE i \in fences : \A j \in fences : i <= j) - 1)

extractJSON(text) ==
    IF text # <<>> /\ Head(text) \in {FenceJson, Fence}
    THEN UpToFence(Tail(text))
    ELSE text

\* Client.AnalyzeClaim: Complete, extractJSON, json.Unmarshal.
AnalyzeClaim(reply) ==
    IF reply.err THEN [err |-> TRUE, analysis |-> Judgment(FALSE, "", "")]
    ELSE LET jsonStr == extractJSON(reply.text)
         IN IF Len(jsonStr) = 1 /\ jsonStr[1] \in JsonObjects
            THEN [err |-> FALSE, analysis |-> Unmarshal(jsonStr[1])]
            ELSE [err |-> TRUE, analysis |-> Judgment(FALSE, "", "")]

\* One "bip s2 get" lookup: whether bip is on PATH, whether the command
\* succeeded, and its stderr.
BipAnswers ==
    {[installed |-> FALSE, ok |-> FALSE, stderr |-> ""],
     [installed |-> TRUE, ok |-> TRUE, stderr |-> ""],
     [installed |-> TRUE, ok |-> FALSE, stderr |-> "paper not found"],
     [installed |-> TRUE, ok |-> FALSE, stderr |-> "connection refused"]}

\* strings.Contains(stderrStr, "not found") || strings.Contains(stderrStr, "no such")
SaysAbsent(stderr) == stderr \in {"paper not found", "no such paper"}

\* One "gh api" lookup: whether gh is on PATH, whether the command succeeded,
\* its stderr, whether its stdout parses, and the size it reports.
GhSizes == {0, 3000}

GhAnswers ==
    {[installed |-> FALSE, ok |-> FALSE, stderr |-> "", parses |-> FALSE, size |-> 0],
     [installed |-> TRUE, ok |-> FALSE, stderr |-> "HTTP 404", parses |-> FALSE, size |-> 0],
     [installed |-> TRUE, ok |-> FALSE, stderr |-> "rate limit", parses |-> FALSE, size |-> 0]}
    \cup {[installed |-> TRUE, ok |-> TRUE, stderr |-> "", parses |-> TRUE, size |-> s] :
             s \in GhSizes}

\* bytes.Contains(stderr, "404") || bytes.Contains(stderr, "Not Found")
Says404(stderr) == stderr \in {"HTTP 404", "Not Found"}

\* One URL probe: whether the URL parses, and for the HEAD and the GET
\* attempt either a transport error (0) or the status of the response.
HTTPStatuses == {199, 200, 399, 400, 499, 500}
TransportError == 0

HTTPAnswers ==
    {[valid |-> FALSE, head |-> TransportError, get |-> TransportError]}
    \cup {[valid |-> TRUE, head |-> s, get |-> TransportError] : s \in HTTPStatuses}
    \cup {[valid |-> TRUE, head |-> TransportError, get |-> s] :
             s \in HTTPStatuses \cup {TransportError}}

\* ---------------------------------------------------------------- verifiers

VerifyTodoMarker(marker, file, line, text) ==
    Result(CheckTypeTodoMarker, file, line, text, CheckStatusFail,
           Msg("TODO/FIXME marker found - remove before publishing", "", "", 0),
           NoDetails)

CitationDetails(paperID, resolved) ==
    [NoDetails EXCEPT !.Citation =
        [present |-> TRUE, PaperID |-> paperID, Resolved |-> resolved]]

\* lookupPaperInBipartite: (resolved, error text or "").
lookupPaperInBipartite(bip) ==
    IF ~bip.installed THEN [resolved |-> FALSE, err |-> "bip CLI not found"]
    ELSE IF ~bip.ok
    THEN IF SaysAbsent(bip.stderr) THEN [resolved |-> FALSE, err |-> ""]
         ELSE [resolved |-> FALSE, err |-> "bip lookup failed: " \o bip.stderr]
    ELSE [resolved |-> TRUE, err |-> ""]

\* A citation verifier that only warns when the lookup errors.
VerifyCitationWarnOnError(paperID, file, line, text, bip) ==
    LET look == lookupPaperInBipartite(bip)
    IN Result(CheckTypeCitation, file, line, text,
              IF look.err # "" THEN CheckStatusWarn
              ELSE IF look.resolved THEN CheckStatusPass ELSE CheckStatusFail,
              Msg("Failed to verify paper ID", paperID, look.err, 0),
              CitationDetails(paperID, look.resolved))

VerifyCitation(paperID, file, line, text, bip) ==
    LET look == lookupPaperInBipartite(bip)
    IN IF look.err # ""
       THEN Result(CheckTypeCitation, file, line, text, CheckStatusFail,
                   Msg("Failed to verify paper ID", paperID, look.err, 0),
                   CitationDetails(paperID, FALSE))
       ELSE IF look.resolved
       THEN Result(CheckTypeCitation, file, line, text, CheckStatusPass,
                   Msg("Paper ID resolved successfully", paperID, "", 0),
                   CitationDetails(paperID, TRUE))
       ELSE Result(CheckTypeCitation, file, line, text, CheckStatusFail,
                   Msg("Paper ID not found in bipartite", paperID, "", 0),
                   CitationDetails(paperID, FALSE))

URLDetails(status, err) ==
    [NoDetails EXCEPT !.URL =
        [present |-> TRUE, HasStatus |-> status # 0, HTTPStatus |-> status,
         Error |-> err]]

\* A URL verifier that takes every status from 400 up for a client error.
VerifyURLFailFrom400(url, file, line, text, http) ==
    LET statusCode == IF http.head # TransportError THEN http.head ELSE http.get
    IN IF ~http.valid \/ statusCode = TransportError
       THEN Result(CheckTypeURL, file, line, text, CheckStatusFail,
                   Msg("URL is not accessible", url, "transport error", 0),
                   URLDetails(0, "transport error"))
       ELSE Result(CheckTypeURL, file, line, text,
                   IF statusCode >= 200 /\ statusCode < 400 THEN CheckStatusPass
                   ELSE IF statusCode >= 400 THEN CheckStatusFail
                   ELSE CheckStatusWarn,
                   Msg("URL returned", url, "", statusCode),
                   URLDetails(statusCode, ""))

\* Requests that repeat with GET whenever the HEAD attempt did not end in a
\* status below 400.
RequestsRetryOnStatus(http) ==
    IF ~http.valid THEN <<>>
    ELSE IF http.head # TransportError /\ http.head < 400 THEN <<"HEAD">>
    ELSE <<"HEAD", "GET">>

\* The requests VerifyURL sends, in order: none for a URL that
\* NewRequestWithContext refuses, else HEAD, then GET if client.Do returned
\* an error for the HEAD.
Requests(http) ==
    IF ~http.valid THEN <<>>
    ELSE IF http.head # TransportError THEN <<"HEAD">>
    ELSE <<"HEAD", "GET">>

VerifyURL(url, file, line, text, http) ==
    IF ~http.valid
    THEN Result(CheckTypeURL, file, line, text, CheckStatusFail,
                Msg("Invalid URL", url, "parse error", 0), URLDetails(0, "parse error"))
    ELSE LET statusCode == IF Len(Requests(http)) = 2 THEN http.get ELSE http.head
         IN IF statusCode = TransportError
            THEN Result(CheckTypeURL, file, line, text, CheckStatusFail,
                        Msg("URL is not accessible", url, "transport error", 0),
                        URLDetails(0, "transport error"))
            ELSE IF statusCode >= 200 /\ statusCode < 400
            THEN Result(CheckTypeURL, file, line, text, CheckStatusPass,
                        Msg("URL is accessible", url, "", statusCode),
                        URLDetails(statusCode, ""))
            ELSE IF statusCode >= 400 /\ statusCode < 500
            THEN Result(CheckTypeURL, file, line, text, CheckStatusFail,
                        Msg("URL returned client error", url, "", statusCode),
                        URLDetails(statusCode, ""))
            ELSE Result(CheckTypeURL, file, line, text, CheckStatusWarn,
                        Msg("URL returned unexpected status", url, "", statusCode),
                        URLDetails(statusCode, ""))

CodeLinkDetails(link, fileExists, lineRangeValid) ==
    [NoDetails EXCEPT !.CodeLink =
        [present |-> TRUE, Permalink |-> link.FullURL, FileExists |-> fileExists,
         LineRangeValid |-> lineRangeValid]]

\* Assumed average number of characters per line.
estimatedCharsPerLine == 30

\* checkFileExistsAtCommit: (exists, lineCount, isEstimated, error text or "").
checkFileExistsAtCommit(gh) ==
    IF ~gh.ok
    THEN IF Says404(gh.stderr)
         THEN [exists |-> FALSE, lineCount |-> 0, isEstimated |-> FALSE, err |-> ""]
         ELSE [exists |-> FALSE, lineCount |-> 0, isEstimated |-> FALSE,
               err |-> "gh api error: " \o gh.stderr]
    ELSE IF ~gh.parses
    THEN [exists |-> FALSE, lineCount |-> 0, isEstimated |-> FALSE,
          err |-> "parse response"]
    ELSE LET estimatedLines == gh.size \div estimatedCharsPerLine
         IN [exists |-> TRUE,
             lineCount |-> IF estimatedLines < 1 THEN 1 ELSE estimatedLines,
             isEstimated |-> TRUE, err |-> ""]

\* link.CommitSHA[:8] is evaluated, for the message of an absent file, on a
\* commit identifier shorter than 8 bytes: a slice out of range, a panic.
VerifyCodeLinkPanics(link, gh) ==
    /\ gh.installed
    /\ LET chk == checkFileExistsAtCommit(gh)
       IN chk.err = "" /\ ~chk.exists /\ Len(link.CommitSHA) < 8

\* A permalink verifier that fails when gh is missing.
VerifyCodeLinkFailNoGh(link, file, line, text, gh) ==
    Result(CheckTypeCodeLink, file, line, text,
           IF ~gh.installed \/ ~gh.ok \/ ~gh.parses
           THEN CheckStatusFail ELSE CheckStatusWarn,
           Msg(IF ~gh.installed THEN "Cannot verify code link: gh CLI not found"
               ELSE "Failed to verify code link", link.FullURL, "", 0),
           CodeLinkDetails(link, FALSE, FALSE))

VerifyCodeLink(link, file, line, text, gh) ==
    IF ~gh.installed
    THEN Result(CheckTypeCodeLink, file, line, text, CheckStatusWarn,
                Msg("Cannot verify code link: gh CLI not found", link.FullURL, "", 0),
                CodeLinkDetails(link, FALSE, FALSE))
    ELSE LET chk == checkFileExistsAtCommit(gh)
             lineRangeSkipped == chk.exists /\ chk.isEstimated
             checked == chk.exists /\ ~chk.isEstimated /\ chk.lineCount > 0
             lineRangeValid ==
                 checked /\ link.StartLine <= chk.lineCount
                         /\ link.EndLine <= chk.lineCount
         IN IF chk.err # ""
            THEN Result(CheckTypeCodeLink, file, line, text, CheckStatusFail,
                        Msg("Failed to verify code link", link.FullURL, chk.err, 0),
                        CodeLinkDetails(link, FALSE, FALSE))
            ELSE IF ~chk.exists
            THEN Result(CheckTypeCodeLink, file, line, text, CheckStatusFail,
                        Msg("File does not exist at commit", link.FilePath, "", 0),
                        CodeLinkDetails(link, FALSE, lineRangeValid))
            ELSE IF lineRangeSkipped
            THEN Result(CheckTypeCodeLink, file, line, text, CheckStatusWarn,
                        Msg("file exists but line range could not be verified (line count estimated)",
                            link.FullURL, "", 0),
                        CodeLinkDetails(link, TRUE, TRUE))
            ELSE IF ~lineRangeValid
            THEN Result(CheckTypeCodeLink, file, line, text, CheckStatusFail,
                        Msg("Line range exceeds file length", link.FullURL, "",
                            chk.lineCount),
                        CodeLinkDetails(link, TRUE, FALSE))
            ELSE Result(CheckTypeCodeLink, file, line, text, CheckStatusPass,
                        Msg("Code link is valid", link.FullURL, "", 0),
                        CodeLinkDetails(link, TRUE, TRUE))

\* checkFileAtCommit, the lookup of the revision of this file kept as
\* codelinks.go: (exists, lineCount, error text or ""), the count being the
\* same size-based estimate.
checkFileAtCommit(gh) ==
    LET chk == checkFileExistsAtCommit(gh)
    IN [exists |-> chk.exists, lineCount |-> chk.lineCount, err |-> chk.err]

\* VerifyCodeLink as the revision kept as codelinks.go has it: the estimated
\* count decides the line range.
VerifyCodeLinkAtCommit(link, file, line, text, gh) ==
    IF ~gh.installed
    THEN Result(CheckTypeCodeLink, file, line, text, CheckStatusWarn,
                Msg("Cannot verify code link: gh CLI not found", link.FullURL, "", 0),
                CodeLinkDetails(link, FALSE, FALSE))
    ELSE LET chk == checkFileAtCommit(gh)
             lineRangeValid ==
                 chk.exists /\ chk.lineCount > 0
                     /\ link.StartLine <= chk.lineCount
                     /\ link.EndLine <= chk.lineCount
         IN IF chk.err # ""
            THEN Result(CheckTypeCodeLink, file, line, text, CheckStatusFail,
                        Msg("Failed to verify code link", link.FullURL, chk.err, 0),
                        CodeLinkDetails(link, FALSE, FALSE))
            ELSE IF chk.exists /\ lineRangeValid
            THEN Result(CheckTypeCodeLink, file, line, text, CheckStatusPass,
                        Msg("Code link is valid", link.FullURL, "", 0),
                        CodeLinkDetails(link, chk.exists, lineRangeValid))
            ELSE IF ~chk.exists
            THEN Result(CheckTypeCodeLink, file, line, text, CheckStatusFail,
                        Msg("File does not exist at commit", link.FilePath, "", 0),
                        CodeLinkDetails(link, chk.exists, lineRangeValid))
            ELSE Result(CheckTypeCodeLink, file, line, text, CheckStatusFail,
                        Msg("Line range exceeds file length", link.FullURL, "",
                            chk.lineCount),
                        CodeLinkDetails(link, chk.exists, lineRangeValid))

ClaimDetails(confidence, action) ==
    [NoDetails EXCEPT !.Claim =
        [present |-> TRUE, Confidence |-> confidence, SuggestedAction |-> action]]

\* The outcome VerifyClaim builds from the final judgment.
ClaimOutcome(sentence, file, line, final) ==
    IF final.needsCitation
    THEN Result(CheckTypeClaim, file, line, sentence, CheckStatusFail,
                Msg("Uncited factual claim detected", "", "", 0),
                ClaimDetails(final.confidence, "add citation"))
    ELSE Result(CheckTypeClaim, file, line, sentence, CheckStatusPass,
                Msg(final.reason, "", "", 0),
                ClaimDetails(final.confidence, "no action needed"))

\* The condition of VerifyClaim's escalation branch: heuristics
\* inconclusive, the flag set, a provider available.
Escalates(heur, useLLMFlag, llm) ==
    /\ heur.confidence = "low"
    /\ useLLMFlag
    /\ IsAvailable(llm.path)

\* The branch itself: NewClient, then AnalyzeClaim when a client was made;
\* the judgment is replaced only when neither returned an error.
Escalate(heur, llm) ==
    LET client == NewClient(llm.clientPath)
        reply == AnalyzeClaim(llm.reply)
    IN [consulted |-> ~client.err,
        final |-> IF ~client.err /\ ~reply.err THEN reply.analysis ELSE heur]

\* What VerifyClaim did: whether it entered the escalation branch, whether
\* it called AnalyzeClaim, and the outcome it returned.
ClaimCall(escalated, consulted, result) ==
    [escalated |-> escalated, consulted |-> consulted, result |-> result]

\* A verifier that escalates whatever the flag says.
VerifyClaimIgnoreFlag(sentence, file, line, hasCitation, useLLMFlag, llm) ==
    IF hasCitation
    THEN ClaimCall(FALSE, FALSE,
                   ClaimOutcome(sentence, file, line,
                                Judgment(FALSE, "high", "Claim has citation")))
    ELSE LET heur == AnalyzeClaimWithHeuristics(sentence)
             esc == Escalate(heur, llm)
         IN IF Escalates(heur, TRUE, llm)
            THEN ClaimCall(TRUE, esc.consulted,
                           ClaimOutcome(sentence, file, line, esc.final))
            ELSE ClaimCall(FALSE, FALSE, ClaimOutcome(sentence, file, line, heur))

\* A verifier that lets a failed oracle call count as "needs citation".
VerifyClaimFailOnError(sentence, file, line, hasCitation, useLLMFlag, llm) ==
    IF hasCitation
    THEN ClaimCall(FALSE, FALSE,
                   ClaimOutcome(sentence, file, line,
                                Judgment(FALSE, "high", "Claim has citation")))
    ELSE LET heur == AnalyzeClaimWithHeuristics(sentence)
             esc == Escalate(heur, llm)
             failed == NewClient(llm.clientPath).err \/ AnalyzeClaim(llm.reply).err
         IN IF Escalates(heur, useLLMFlag, llm)
            THEN ClaimCall(TRUE, esc.consulted,
                           ClaimOutcome(sentence, file, line,
                                        IF failed
                                        THEN Judgment(TRUE, "low", "oracle failed")
                                        ELSE esc.final))
            ELSE ClaimCall(FALSE, FALSE, ClaimOutcome(sentence, file, line, heur))

\* A verifier that takes the oracle's confidence but keeps the heuristic
\* needs-citation judgment.
VerifyClaimHeuristicStatus(sentence, file, line, hasCitation, useLLMFlag, llm) ==
    IF hasCitation
    THEN ClaimCall(FALSE, FALSE,
                   ClaimOutcome(sentence, file, line,
                                Judgment(FALSE, "high", "Claim has citation")))
    ELSE LET heur == AnalyzeClaimWithHeuristics(sentence)
             esc == Escalate(heur, llm)
         IN IF Escalates(heur, useLLMFlag, llm)
            THEN ClaimCall(TRUE, esc.consulted,
                           ClaimOutcome(sentence, file, line,
                               [esc.final EXCEPT !.needsCitation = heur.needsCitation]))
            ELSE ClaimCall(FALSE, FALSE, ClaimOutcome(sentence, file, line, heur))

\* VerifyClaim: a cited sentence passes at once; otherwise the heuristics,
\* the escalation when its condition holds, and the outcome of the final
\* judgment.
VerifyClaim(sentence, file, line, hasCitation, useLLMFlag, llm) ==
    IF hasCitation
    THEN ClaimCall(FALSE, FALSE,
                   ClaimOutcome(sentence, file, line,
                                Judgment(FALSE, "high", "Claim has citation")))
    ELSE LET heur == AnalyzeClaimWithHeuristics(sentence)
             esc == Escalate(heur, llm)
         IN IF Escalates(heur, useLLMFlag, llm)
            THEN ClaimCall(TRUE, esc.consulted,
                           ClaimOutcome(sentence, file, line, esc.final))
            ELSE ClaimCall(FALSE, FALSE, ClaimOutcome(sentence, file, line, heur))

\* ----------------------------------------------------------- ReportBuilder

\* The loop of Build over b.results: one switch on r.Status per outcome.
RECURSIVE Tally(_, _)
Tally(rs, summary) ==
    IF rs = <<>> THEN summary
    ELSE LET r == Head(rs)
             next == CASE r.Status = CheckStatusPass ->
                              [summary EXCEPT !.Passed = @ + 1]
                       [] r.Status = CheckStatusFail ->
                              [summary EXCEPT !.Failed = @ + 1]
                       [] r.Status = CheckStatusWarn ->
                              [summary EXCEPT !.Warnings = @ + 1]
                       [] OTHER -> summary
         IN Tally(Tail(rs), next)

\* A Build whose loop stops at the first failing outcome.
SummarizeUntilFail(rs) ==
    LET fails == {i \in 1..Len(rs) : rs[i].Status = CheckStatusFail}
        last == IF fails = {} THEN Len(rs)
                ELSE CHOOSE i \in fails : \A j \in fails : i <= j
    IN Tally(SubSeq(rs, 1, last), [ZeroSummary EXCEPT !.TotalChecks = Len(rs)])

\* A Build that counts warnings as failures.
SummarizeWarnAsFail(rs) ==
    LET s == Tally(rs, [ZeroSummary EXCEPT !.TotalChecks = Len(rs)])
    IN [s EXCEPT !.Failed = s.Failed + s.Warnings, !.Warnings = 0]

\* Build: TotalChecks is len(b.results), then the loop.
Summarize(rs) == Tally(rs, [ZeroSummary EXCEPT !.TotalChecks = Len(rs)])

\* An exit code that also trips on warnings.
ExitCodeOnWarn(summary) == IF summary.Failed + summary.Warnings > 0 THEN 1 ELSE 0

ExitCodeOf(summary) == IF summary.Failed > 0 THEN 1 ELSE 0

BuildReport(fs, rs) ==
    LET summary == Summarize(rs)
    IN [built |-> TRUE, ContentFiles |-> fs, Summary |-> summary,
        Results |-> rs, ExitCode |-> ExitCodeOf(summary)]

\* ------------------------------------------------------ the candidate queue
\* Package queue: the JSONL store and the CandidateService.  A file is the
\* sequence of the candidates of its lines.  DiscoveredAt, ReviewedAt and the
\* descriptive fields of the type-specific data play no part in any decision
\* and are left out; a nil *string is the empty string.

CandidateTypePaper == "paper"
CandidateTypeConcept == "concept"
CandidateTypeRepo == "repo"
CandidateTypeCodeLocation == "code-location"
CandidateTypes ==
    {CandidateTypePaper, CandidateTypeConcept, CandidateTypeRepo,
     CandidateTypeCodeLocation}

CandidateStatusPending == "pending"
CandidateStatusApproved == "approved"
CandidateStatusRejected == "rejected"

\* The nil pointers of Candidate's type-specific data.
NoPaperData == [present |-> FALSE, S2ID |-> ""]
NoRepoData == [present |-> FALSE, URL |-> ""]
NoCodeLocationData == [present |-> FALSE, PermalinkURL |-> ""]

\* A Candidate whose type-specific data matches its type and holds the
\* external identifier ext (a concept has none).
Candidate(id, type, status, ext) ==
    [ID |-> id, Type |-> type, Status |-> status,
     PaperData |-> IF type = CandidateTypePaper
                   THEN [present |-> TRUE, S2ID |-> ext] ELSE NoPaperData,
     RepoData |-> IF type = CandidateTypeRepo
                  THEN [present |-> TRUE, URL |-> ext] ELSE NoRepoData,
     CodeLocationData |-> IF type = CandidateTypeCodeLocation
                          THEN [present |-> TRUE, PermalinkURL |-> ext]
                          ELSE NoCodeLocationData,
     ReviewedBy |-> "", ReviewNotes |-> "", RejectionReason |-> ""]

NoCandidate == Candidate("", "", "", "")

\* GenerateID: "c-" and the clock formatted to the minute.
GenerateID(now) == "c-" \o ToString(now)

\* Store.FindByID on the queue file's candidates: the first with the ID.
FindByID(q, id) ==
    LET hits == {i \in 1..Len(q) : q[i].ID = id}
    IN IF hits = {} THEN [found |-> FALSE, candidate |-> NoCandidate]
       ELSE [found |-> TRUE,
             candidate |-> q[CHOOSE i \in hits : \A j \in hits : i <= j]]

\* Store.Update, the part between ReadAll and WriteAll: the candidates read
\* with the first of the same ID replaced.
Replaced(q, c) ==
    LET hits == {i \in 1..Len(q) : q[i].ID = c.ID}
    IN IF hits = {} THEN [err |-> "candidate not found", candidates |-> q]
       ELSE [err |-> "",
             candidates |-> [q EXCEPT ![CHOOSE i \in hits : \A j \in hits : i <= j] = c]]

\* Store.Update run without interruption.
Update(q, c) == Replaced(q, c)

getExternalID(c) ==
    IF c.Type = CandidateTypePaper /\ c.PaperData.present THEN c.PaperData.S2ID
    ELSE IF c.Type = CandidateTypeRepo /\ c.RepoData.present THEN c.RepoData.URL
    ELSE IF c.Type = CandidateTypeCodeLocation /\ c.CodeLocationData.present
    THEN c.CodeLocationData.PermalinkURL
    ELSE ""

\* Store.IsRejected on the rejected file's candidates.
IsRejected(rej, externalID, candidateType) ==
    \E i \in 1..Len(rej) :
        /\ rej[i].Type = candidateType
        /\ \/ /\ candidateType = CandidateTypePaper
              /\ rej[i].PaperData.present
              /\ rej[i].PaperData.S2ID = externalID
           \/ /\ candidateType = CandidateTypeRepo
              /\ rej[i].RepoData.present
              /\ rej[i].RepoData.URL = externalID
           \/ /\ candidateType = CandidateTypeCodeLocation
              /\ rej[i].CodeLocationData.present
              /\ rej[i].CodeLocationData.PermalinkURL = externalID

\* The defaults CandidateService.Add fills in before it looks at the files.
WithDefaults(candidate, now) ==
    [candidate EXCEPT
        !.ID = IF @ = "" THEN GenerateID(now) ELSE @,
        !.Status = IF @ = "" THEN CandidateStatusPending ELSE @]

\* An Add that does not look for the ID in the queue.
AddWithoutLookup(q, rej, candidate, now) ==
    LET c == WithDefaults(candidate, now)
        externalID == getExternalID(c)
    IN IF externalID # "" /\ IsRejected(rej, externalID, c.Type)
       THEN [err |-> "previously rejected", queue |-> q, candidate |-> c]
       ELSE [err |-> "", queue |-> Append(q, c), candidate |-> c]

\* CandidateService.Add, run without interruption.
Add(q, rej, candidate, now) ==
    LET c == WithDefaults(candidate, now)
        externalID == getExternalID(c)
    IN IF FindByID(q, c.ID).found
       THEN [err |-> "already exists", queue |-> q, candidate |-> c]
       ELSE IF externalID # "" /\ IsRejected(rej, externalID, c.Type)
       THEN [err |-> "previously rejected", queue |-> q, candidate |-> c]
       ELSE [err |-> "", queue |-> Append(q, c), candidate |-> c]

\* What the bip program does for one Approve: whether exec.LookPath finds it
\* and whether its add command exits with status 0.
BipAddAnswers == [installed : BOOLEAN, addOK : BOOLEAN]

NoBip == [installed |-> FALSE, addOK |-> FALSE]

triggerBipartiteAdd(c, bip) ==
    IF ~bip.installed THEN "bip CLI not found"
    ELSE IF c.Type = CandidateTypePaper /\ c.PaperData.present /\ ~bip.addOK
    THEN "bip s2 add failed"
    ELSE IF c.Type = CandidateTypeRepo /\ c.RepoData.present /\ ~bip.addOK
    THEN "bip repo add failed"
    ELSE ""

\* The two revisions of CandidateService.Approve: the earlier prints a
\* warning when triggerBipartiteAdd fails and returns nil, the later returns
\* the failure.
RevisionBipartiteWarned == "Approve, bipartite failure logged"
RevisionBipartiteReturned == "Approve, bipartite failure returned"
ApproveRevisions == {RevisionBipartiteWarned, RevisionBipartiteReturned}

\* What Approve returns once the store is updated.
AfterUpdate(revision, c, bip) ==
    IF revision = RevisionBipartiteReturned /\ triggerBipartiteAdd(c, bip) # ""
    THEN "approved but bipartite integration failed"
    ELSE ""

\* The candidate as Approve / Reject hand it to Store.Update.
Approved(c, reviewedBy, notes) ==
    [c EXCEPT !.Status = CandidateStatusApproved, !.ReviewedBy = reviewedBy,
              !.ReviewNotes = notes]

Rejected(c, reviewedBy, reason) ==
    [c EXCEPT !.Status = CandidateStatusRejected, !.ReviewedBy = reviewedBy,
              !.RejectionReason = reason]

\* An Approve that does not look at the candidate's status.
ApproveAnyStatus(revision, q, id, reviewedBy, notes, bip) ==
    LET hit == FindByID(q, id)
        c == Approved(hit.candidate, reviewedBy, notes)
        upd == Update(q, c)
    IN IF ~hit.found THEN [err |-> "candidate not found", queue |-> q]
       ELSE IF upd.err # "" THEN [err |-> upd.err, queue |-> q]
       ELSE [err |-> AfterUpdate(revision, c, bip), queue |-> upd.candidates]

\* CandidateService.Approve, run without interruption.
Approve(revision, q, id, reviewedBy, notes, bip) ==
    LET hit == FindByID(q, id)
        c == Approved(hit.candidate, reviewedBy, notes)
        upd == Update(q, c)
    IN IF ~hit.found THEN [err |-> "candidate not found", queue |-> q]
       ELSE IF hit.candidate.Status # CandidateStatusPending
       THEN [err |-> "not pending", queue |-> q]
       ELSE IF upd.err # "" THEN [err |-> upd.err, queue |-> q]
       ELSE [err |-> AfterUpdate(revision, c, bip), queue |-> upd.candidates]

\* CandidateService.Reject, run without interruption.
Reject(q, rej, id, reviewedBy, reason) ==
    LET hit == FindByID(q, id)
        c == Rejected(hit.candidate, reviewedBy, reason)
        upd == Update(q, c)
    IN IF ~hit.found
       THEN [err |-> "candidate not found", queue |-> q, rejected |-> rej]
       ELSE IF hit.candidate.Status # CandidateStatusPending
       THEN [err |-> "not pending", queue |-> q, rejected |-> rej]
       ELSE IF upd.err # "" THEN [err |-> upd.err, queue |-> q, rejected |-> rej]
       ELSE [err |-> "", queue |-> upd.candidates, rejected |-> Append(rej, c)]

\* The scribe processes that may work on the queue files at the same time,
\* and a process that runs no queue operation.
Processes == {1, 2}
Idle ==
    [op |-> "none", pc |-> "idle", candidate |-> NoCandidate, id |-> "",
     read |-> <<>>, calls |-> 0]

\* ----------------------------------------------------------- task checkpoints
\* Package status: the CheckpointStore and the BlockingDetector.  Times are
\* minutes of the wall clock; EstimatedCostUSD and the budget are whole
\* dollars.  The fields of a TaskCheckpoint that no decision reads are left
\* out.

\* MinCheckpointInterval, in minutes.
MinCheckpointInterval == 5
\* The age, in minutes, beyond which a blocked item sends the task to review.
BlockedReviewAge == 30

NoBudget == [present |-> FALSE, value |-> 0]

TaskCheckpoint(iterations, maxIterations, budget, cost, blocked) ==
    [exists |-> TRUE, LastCheckpoint |-> 0, IterationCount |-> iterations,
     MaxIterations |-> maxIterations, CostBudgetUSD |-> budget,
     EstimatedCostUSD |-> cost, BlockedItems |-> blocked]

\* The checkpoint file when it does not exist: Read returns (nil, nil).
NoCheckpoint == [TaskCheckpoint(0, 0, NoBudget, 0, <<>>) EXCEPT !.exists = FALSE]

\* A Write that still accepts a checkpoint one minute before the interval
\* is over.
WriteOneMinuteEarly(st, checkpoint, now) ==
    IF st.exists /\ now - st.LastCheckpoint < MinCheckpointInterval - 1
    THEN [err |-> "checkpoint interval too short", stored |-> st]
    ELSE [err |-> "", stored |-> [checkpoint EXCEPT !.LastCheckpoint = now]]

\* CheckpointStore.Write at time now on the file st.
Write(st, checkpoint, now) ==
    IF st.exists /\ now - st.LastCheckpoint < MinCheckpointInterval
    THEN [err |-> "checkpoint interval too short", stored |-> st]
    ELSE [err |-> "", stored |-> [checkpoint EXCEPT !.LastCheckpoint = now]]

\* CheckpointStore.Delete: the file is removed, or was not there.
Delete(st) == [err |-> "", stored |-> NoCheckpoint]

\* CheckpointStore.WriteForced at time now.
WriteForced(st, checkpoint, now) ==
    [err |-> "", stored |-> [checkpoint EXCEPT !.LastCheckpoint = now]]

\* A detector that looks at the iteration budget before the blocked items.
ShouldQueueIterationsFirst(checkpoint, now) ==
    LET items == checkpoint.BlockedItems
        late == {i \in 1..Len(items) : now - items[i].BlockedAt > BlockedReviewAge}
    IN IF checkpoint.IterationCount >= checkpoint.MaxIterations
       THEN [review |-> TRUE, reason |-> "Reached maximum iterations"]
       ELSE IF late # {}
       THEN [review |-> TRUE,
             reason |-> "Blocked item for >30 minutes: "
                            \o items[CHOOSE i \in late : \A j \in late : i <= j].Item]
       ELSE IF /\ checkpoint.CostBudgetUSD.present
               /\ checkpoint.EstimatedCostUSD >= checkpoint.CostBudgetUSD.value
       THEN [review |-> TRUE, reason |-> "Reached cost budget"]
       ELSE [review |-> FALSE, reason |-> ""]

\* BlockingDetector.ShouldQueueForReview at time now.
ShouldQueueForReview(checkpoint, now) ==
    LET items == checkpoint.BlockedItems
        late == {i \in 1..Len(items) : now - items[i].BlockedAt > BlockedReviewAge}
    IN IF late # {}
       THEN [review |-> TRUE,
             reason |-> "Blocked item for >30 minutes: "
                            \o items[CHOOSE i \in late : \A j \in late : i <= j].Item]
       ELSE IF checkpoint.IterationCount >= checkpoint.MaxIterations
       THEN [review |-> TRUE, reason |-> "Reached maximum iterations"]
       ELSE IF /\ checkpoint.CostBudgetUSD.present
               /\ checkpoint.EstimatedCostUSD >= checkpoint.CostBudgetUSD.value
       THEN [review |-> TRUE, reason |-> "Reached cost budget"]
       ELSE [review |-> FALSE, reason |-> ""]

\* ------------------------------------------------------ the file orchestrator

\* Most input files of one run, and most lines the files of one run hold
\* together.
MaxFiles == 2
MaxLines == 2

\* Shortest sentence VerifyFile hands to the claim verifier.
MinSentenceLen == 20

ArgNames == <<"a.qmd", "b.qmd", "c.qmd", "d.qmd">>

\* The argument lists of a run: the first n names.
ArgLists == {SubSeq(ArgNames, 1, n) : n \in 0..MaxFiles}

\* The contents a readable file of at most n lines may have.
Contents(n) == UNION {[1..m -> LineSet] : m \in 0..n}

\* The errors of os.ReadFile, os.Open and scanner.Err.
ReadErrors == {"no such file or directory"}

\* DefaultOptions().UseLLM
DefaultUseLLM == TRUE

\* The scanner loop of VerifyFile: one todo-marker outcome per marker, line
\* by line.
RECURSIVE TodoResults(_, _, _)
TodoResults(file, ls, lineNum) ==
    IF lineNum > Len(ls) THEN <<>>
    ELSE LET line == ls[lineNum]
             markers == FindAll(line, TodoWords)
         IN [i \in 1..Len(markers) |-> VerifyTodoMarker(markers[i], file, lineNum, line)]
            \o TodoResults(file, ls, lineNum + 1)

\* URLs VerifyFile probes: GitHub blob URLs are left to the permalink check.
NotBlob(w) == ~IsGithubBlob(w)

ProbedURLs(ls) == SelectSeq(ExtractURLs(Flatten(ls)), NotBlob)

\* Lines the claim loop skips: front matter, fences, headers, blank lines.
SkippedLine(line) == line = <<>> \/ Head(line) \in {"---", Fence, "#"}

\* The sentences the claim loop hands to VerifyClaim, each with its line
\* number, in order.
RECURSIVE ClaimSentences(_, _)
ClaimSentences(ls, lineNum) ==
    IF lineNum > Len(ls) THEN <<>>
    ELSE LET ss == IF SkippedLine(ls[lineNum]) THEN <<>>
                   ELSE splitSentences(ls[lineNum])
             Long(s) == Chars(s) >= MinSentenceLen
             kept == SelectSeq(ss, Long)
         IN [i \in 1..Len(kept) |-> [line |-> lineNum, sentence |-> kept[i]]]
            \o ClaimSentences(ls, lineNum + 1)

\* lines[i] of the Go slice (0-based).
GoIndex(ls, i) == ls[i + 1]

\* hasCitation of the claim loop.
HasCitation(ls, lineNum, sentence) ==
    \/ HasCiteMarker(sentence)
    \/ (lineNum > 0 /\ lineNum <= Len(ls) /\ HasCiteMarker(GoIndex(ls, lineNum - 1)))

Phases == <<"citations", "urls", "codelinks", "claims", "return">>

\* The slices VerifyFile ranges over, each computed once from the content.
WorkOf(ls) ==
    [citations |-> ExtractCitations(Flatten(ls)),
     urls |-> ProbedURLs(ls),
     codelinks |-> ExtractCodeLinks(Flatten(ls)),
     claims |-> ClaimSentences(ls, 1)]

PhaseLen(p, w) ==
    CASE p = "citations" -> Len(w.citations)
      [] p = "urls" -> Len(w.urls)
      [] p = "codelinks" -> Len(w.codelinks)
      [] p = "claims" -> Len(w.claims)
      [] OTHER -> 1

\* Where VerifyFile continues from item i of phase number n: the next
\* non-empty loop, or its return.
RECURSIVE Continue(_, _, _)
Continue(n, i, w) ==
    IF i <= PhaseLen(Phases[n], w) THEN [pc |-> Phases[n], k |-> i]
    ELSE Continue(n + 1, 1, w)

PhaseNo(p) == CHOOSE n \in 1..Len(Phases) : Phases[n] = p

CurrentFile == args[fileIdx]

NoCall == [fn |-> "none"]

NoWork == [citations |-> <<>>, urls |-> <<>>, codelinks |-> <<>>, claims |-> <<>>]

\* Lines read by the run so far.
LinesLeft == MaxLines - linesRead

\* VerifyFiles is entered: by verifyCmd with the command line's files and
\* DefaultOptions, or by another caller with its own options.
CallVerifyFiles ==
    /\ pc = "idle"
    /\ \E as \in ArgLists, opt \in BOOLEAN :
           /\ args' = as
           /\ useLLM' = opt
    /\ pc' = "files"
    /\ fileIdx' = 1
    /\ files' = <<>>
    /\ results' = <<>>
    /\ UNCHANGED <<svcVars, report, lines, work, k, out, call, exitStatus, linesRead>>

\* An outcome for an unreadable file that only warns.
ReadErrorResultWarn(file, e) ==
    Result(CheckTypeCitation, file, 0, <<>>, CheckStatusWarn, Msg("%v", "", e, 0),
           NoDetails)

\* An outcome for an unreadable file that carries URL details.
ReadErrorResultURLDetails(file, e) ==
    Result(CheckTypeCitation, file, 0, <<>>, CheckStatusFail, Msg("%v", "", e, 0),
           [NoDetails EXCEPT !.URL =
               [present |-> TRUE, HasStatus |-> FALSE, HTTPStatus |-> 0, Error |-> e]])

\* The outcome VerifyFiles creates when VerifyFile returns an error.
ReadErrorResult(file, e) ==
    Result(CheckTypeCitation, file, 0, <<>>, CheckStatusFail, Msg("%v", "", e, 0),
           NoDetails)

\* VerifyFiles, one unreadable file: AddFile, VerifyFile returns an error,
\* one failing outcome, continue.
ReadFileError ==
    /\ pc = "files"
    /\ fileIdx <= Len(args)
    /\ files' = Append(files, CurrentFile)
    /\ \E e \in ReadErrors :
           /\ results' = Append(results, ReadErrorResult(CurrentFile, e))
           /\ call' = [fn |-> "VerifyFile", file |-> CurrentFile, err |-> e]
    /\ fileIdx' = fileIdx + 1
    /\ UNCHANGED <<svcVars, report, pc, useLLM, args, lines, work, k, out, exitStatus,
                   linesRead>>

\* VerifyFiles, one readable file: AddFile, then VerifyFile reads the lines,
\* emits the todo-marker outcomes and extracts the references.
ScanFile ==
    /\ pc = "files"
    /\ fileIdx <= Len(args)
    /\ files' = Append(files, CurrentFile)
    /\ \E content \in Contents(LinesLeft) :
           /\ lines' = content
           /\ linesRead' = linesRead + Len(content)
           /\ out' = TodoResults(CurrentFile, content, 1)
           /\ work' = WorkOf(content)
           /\ LET next == Continue(1, 1, WorkOf(content))
              IN pc' = next.pc /\ k' = next.k
    /\ UNCHANGED <<svcVars, results, report, useLLM, args, fileIdx, call, exitStatus>>

\* The rest of every step of VerifyFile's loops: keep the outcome, move on.
Emit(rs, trace) ==
    /\ out' = out \o rs
    /\ call' = trace
    /\ LET next == Continue(PhaseNo(pc), k + 1, work)
       IN pc' = next.pc /\ k' = next.k
    /\ UNCHANGED <<svcVars, files, results, report, useLLM, args, fileIdx, lines, work,
                   exitStatus, linesRead>>

StepCitation ==
    /\ pc = "citations"
    /\ \E bip \in BipAnswers :
           LET citation == work.citations[k]
               lineNum == findLineNumberCite(lines, citation)
               r == VerifyCitation(citation, CurrentFile, lineNum,
                                   LineText(lines, lineNum), bip)
           IN Emit(<<r>>, [fn |-> "VerifyCitation", paperID |-> citation,
                           bip |-> bip, result |-> r])

StepURL ==
    /\ pc = "urls"
    /\ \E http \in HTTPAnswers :
           LET url == work.urls[k]
               lineNum == findLineNumber(lines, url)
               r == VerifyURL(url, CurrentFile, lineNum, LineText(lines, lineNum),
                              http)
           IN Emit(<<r>>, [fn |-> "VerifyURL", url |-> url, http |-> http,
                           requests |-> Requests(http), result |-> r])

\* VerifyCodeLink returns an outcome.
StepCodeLink ==
    /\ pc = "codelinks"
    /\ \E gh \in GhAnswers :
           LET link == work.codelinks[k]
               lineNum == findLineNumber(lines, link.FullURL)
               r == VerifyCodeLink(link, CurrentFile, lineNum,
                                   LineText(lines, lineNum), gh)
           IN /\ ~VerifyCodeLinkPanics(link, gh)
              /\ Emit(<<r>>, [fn |-> "VerifyCodeLink", link |-> link, gh |-> gh,
                              result |-> r])

\* VerifyCodeLink panics: nothing recovers, the run ends without a report.
PanicCodeLink ==
    /\ pc = "codelinks"
    /\ \E gh \in GhAnswers :
           LET link == work.codelinks[k]
           IN /\ VerifyCodeLinkPanics(link, gh)
              /\ call' = [fn |-> "VerifyCodeLink", link |-> link, gh |-> gh]
    /\ pc' = "panic"
    /\ UNCHANGED <<svcVars, files, results, report, useLLM, args, fileIdx, lines, work, k, out,
                   exitStatus, linesRead>>

\* A claim loop that keeps every outcome of VerifyClaim.
KeptClaimAlways(result) == <<result>>

\* What the claim loop appends for one VerifyClaim outcome: the outcome
\* when it fails, nothing otherwise.
KeptClaim(result) == IF result.Status = CheckStatusFail THEN <<result>> ELSE <<>>

\* One sentence of the claim loop: only a failing outcome is kept.
StepClaim ==
    /\ pc = "claims"
    /\ \E llm \in LLMAnswers :
           LET item == work.claims[k]
               hasCitation == HasCitation(lines, item.line, item.sentence)
               v == VerifyClaim(item.sentence, CurrentFile, item.line, hasCitation,
                                useLLM, llm)
           IN Emit(KeptClaim(v.result),
                   [fn |-> "VerifyClaim", sentence |-> item.sentence,
                    line |-> item.line, hasCitation |-> hasCitation,
                    useLLM |-> useLLM, escalated |-> v.escalated,
                    consulted |-> v.consulted,
                    llm |-> IF v.escalated THEN llm ELSE NotAsked,
                    result |-> v.result])

\* VerifyFile returns; VerifyFiles adds its results to the builder.
ReturnFile ==
    /\ pc = "return"
    /\ results' = results \o out
    /\ out' = <<>>
    /\ lines' = <<>>
    /\ work' = NoWork
    /\ k' = 1
    /\ call' = NoCall
    /\ fileIdx' = fileIdx + 1
    /\ pc' = "files"
    /\ UNCHANGED <<svcVars, files, report, useLLM, args, exitStatus, linesRead>>

\* VerifyFiles after the last file: builder.Build(), the report is returned.
BuildStep ==
    /\ pc = "files"
    /\ fileIdx > Len(args)
    /\ report' = BuildReport(files, results)
    /\ pc' = "built"
    /\ UNCHANGED <<svcVars, files, results, useLLM, args, fileIdx, lines, work, k, out, call,
                   exitStatus, linesRead>>

\* The run may be one of verifyCmd: at least one argument (cobra's
\* MinimumNArgs(1)) and DefaultOptions.
IsCommandRun == Len(args) >= 1 /\ useLLM = DefaultUseLLM

\* The exit status when RunE returns an output error: main prints it and
\* calls os.Exit(1).
OutputErrorStatus == 1

\* The exit status of a Go program that panics.
PanicStatus == 2

\* A command that exits 0 whatever the report says.
ExitStatusIgnoringReport(rep, jsonOutput, written) == 0

\* The exit status verifyCmd and main arrive at once the report is there:
\* formatter.JSON can return an error, which RunE returns and main turns
\* into os.Exit(1); the human rendering ignores write errors; otherwise
\* os.Exit(report.ExitCode) when it is not 0, and a normal return.
ExitStatusOf(rep, jsonOutput, written) ==
    IF jsonOutput /\ ~written THEN OutputErrorStatus ELSE rep.ExitCode

\* The rest of verifyCmd: print the report as JSON or for a human (the
\* write succeeds or not), then exit.
OutputAndExit ==
    /\ pc = "built"
    /\ IsCommandRun
    /\ \E jsonOutput \in BOOLEAN, written \in BOOLEAN :
           /\ exitStatus' = ExitStatusOf(report, jsonOutput, written)
           /\ call' = [fn |-> "output", jsonOutput |-> jsonOutput,
                       written |-> written]
    /\ pc' = "exited"
    /\ UNCHANGED <<svcVars, files, results, report, useLLM, args, fileIdx, lines, work, k, out,
                   linesRead>>

\* The panic ends the scribe process.
Crash ==
    /\ pc = "panic"
    /\ IsCommandRun
    /\ exitStatus' = PanicStatus
    /\ pc' = "crashed"
    /\ UNCHANGED <<svcVars, files, results, report, useLLM, args, fileIdx, lines, work, k, out,
                   call, linesRead>>

Init ==
    /\ files = <<>>
    /\ results = <<>>
    /\ report = NoReport
    /\ pc = "idle"
    /\ useLLM = FALSE
    /\ args = <<>>
    /\ fileIdx = 1
    /\ lines = <<>>
    /\ work = NoWork
    /\ k = 1
    /\ out = <<>>
    /\ call = NoCall
    /\ exitStatus = -1
    /\ linesRead = 0
    /\ queue = <<>>
    /\ rejected = <<>>
    /\ clock = 0
    /\ stored = NoCheckpoint
    /\ procs = [p \in Processes |-> Idle]
    /\ acked = {}

Next ==
    \/ CallVerifyFiles
    \/ ReadFileError
    \/ ScanFile
    \/ StepCitation
    \/ StepURL
    \/ StepCodeLink
    \/ PanicCodeLink
    \/ StepClaim
    \/ ReturnFile
    \/ BuildStep
    \/ OutputAndExit
    \/ Crash

Spec == Init /\ [][Next]_vars

\* ------------------------------------------- the builder through its API

FileNames == {"a.qmd", "b.qmd"}

\* Identifiers (CheckID) of the outcomes a caller holds.
CheckIDs == {"u1", "u2"}

\* Outcomes a caller may hand to AddResult (the test's are of this shape),
\* each with the CheckID that tells it from every other outcome.
SampleResults ==
    {[CheckID |-> id] @@ Result(CheckTypeCitation, "", 0, <<>>, s, NoMsg, NoDetails) :
         id \in CheckIDs, s \in CheckStatus}

AddFile(f) ==
    /\ Len(files) < MaxAddFiles
    /\ files' = Append(files, f)
    /\ UNCHANGED <<svcVars, results, report, runVars>>

AddResult(r) ==
    /\ Len(results) < MaxResults
    /\ results' = Append(results, r)
    /\ UNCHANGED <<svcVars, files, report, runVars>>

Build ==
    /\ report' = BuildReport(files, results)
    /\ UNCHANGED <<svcVars, files, results, runVars>>

InitReport == Init

NextReport ==
    \/ \E f \in FileNames : AddFile(f)
    \/ \E r \in SampleResults : AddResult(r)
    \/ Build

SpecReport == InitReport /\ [][NextReport]_vars

\* ------------------------------- the permalink functions through their API

\* Most words of a text handed to ExtractCodeLinks.
MaxLinkWords == 3

\* Texts handed to ExtractCodeLinks: permalinks and other words.
LinkTexts ==
    UNION {[1..n -> PermalinkWords \cup {"see"}] : n \in 0..MaxLinkWords}

\* The two revisions of VerifyCodeLink the repository holds, by file.
RevisionLineRangeSkipped == "part_002"
RevisionLineRangeCounted == "codelinks.go"

VerifyCodeLinkOf(revision, link, file, line, text, gh) ==
    IF revision = RevisionLineRangeSkipped
    THEN VerifyCodeLink(link, file, line, text, gh)
    ELSE VerifyCodeLinkAtCommit(link, file, line, text, gh)

\* A caller extracts the permalinks of a text.
CallExtractCodeLinks ==
    /\ pc = "idle"
    /\ \E content \in LinkTexts :
           call' = [fn |-> "ExtractCodeLinks", content |-> content,
                    links |-> ExtractCodeLinks(content)]
    /\ UNCHANGED <<svcVars, files, results, report, pc, useLLM, args, fileIdx, lines, work, k,
                   out, exitStatus, linesRead>>

\* A caller verifies one extracted permalink; the verifier returns.
CallVerifyCodeLink ==
    /\ pc = "idle"
    /\ \E w \in PermalinkWords, gh \in GhAnswers,
          revision \in {RevisionLineRangeSkipped, RevisionLineRangeCounted} :
           LET link == CodeLinkMatch(w)
           IN /\ ~VerifyCodeLinkPanics(link, gh)
              /\ call' = [fn |-> "VerifyCodeLink", revision |-> revision,
                          link |-> link, gh |-> gh,
                          result |-> VerifyCodeLinkOf(revision, link, "a.qmd", 1,
                                                      <<w>>, gh)]
    /\ UNCHANGED <<svcVars, files, results, report, pc, useLLM, args, fileIdx, lines, work, k,
                   out, exitStatus, linesRead>>

\* A caller verifies one extracted permalink; the verifier panics (both
\* revisions slice the commit identifier the same way).
CallVerifyCodeLinkPanic ==
    /\ pc = "idle"
    /\ \E w \in PermalinkWords, gh \in GhAnswers,
          revision \in {RevisionLineRangeSkipped, RevisionLineRangeCounted} :
           LET link == CodeLinkMatch(w)
           IN /\ VerifyCodeLinkPanics(link, gh)
              /\ call' = [fn |-> "VerifyCodeLink", revision |-> revision,
                          link |-> link, gh |-> gh]
    /\ pc' = "panic"
    /\ UNCHANGED <<svcVars, files, results, report, useLLM, args, fileIdx, lines, work, k, out,
                   exitStatus, linesRead>>

InitCodeLink == Init

NextCodeLink ==
    \/ CallExtractCodeLinks
    \/ CallVerifyCodeLink
    \/ CallVerifyCodeLinkPanic

SpecCodeLink == InitCodeLink /\ [][NextCodeLink]_vars

\* ------------------------------ the CandidateService through its API
\* One process at a time: every call runs to its return before the next.

\* Most candidates in the queue file.
MaxQueue == 2
\* The last minute of the wall clock.
MaxClock == 1

\* Candidates a caller may hand to Add: with or without an ID, of every
\* type, with an empty or a non-empty external identifier, with or without a
\* status.
CandidateIDs == {"", "c1"}
ExternalIDs == {"", "e1"}
SampleCandidates ==
    {Candidate(id, type, status, IF type = CandidateTypeConcept THEN "" ELSE ext) :
        id \in CandidateIDs, type \in CandidateTypes,
        status \in {"", CandidateStatusApproved}, ext \in ExternalIDs}

\* The IDs a caller may hand to Approve and Reject: those of the queue and
\* one that is not there.
TargetIDs == {queue[i].ID : i \in 1..Len(queue)} \cup {"c9"}

\* A minute passes.
Tick ==
    /\ clock < MaxClock
    /\ clock' = clock + 1
    /\ UNCHANGED <<builderVars, runVars, queue, rejected, stored, procs, acked>>

CallAdd(candidate) ==
    /\ Len(queue) < MaxQueue
    /\ LET r == Add(queue, rejected, candidate, clock)
       IN /\ queue' = r.queue
          /\ call' = [fn |-> "Add", id |-> r.candidate.ID, err |-> r.err]
    /\ UNCHANGED <<builderVars, pc, useLLM, args, fileIdx, lines, work, k, out,
                   exitStatus, linesRead, rejected, clock, stored, procs, acked>>

\* The revision and the bip program play a part only once Approve has
\* updated the store.
CallApprove(id) ==
    /\ \E revision \in ApproveRevisions, bip \in BipAddAnswers :
          LET r == Approve(revision, queue, id, "human", "", bip)
              reached == r.queue # queue
          IN /\ ~reached => (revision = RevisionBipartiteReturned /\ bip = NoBip)
             /\ queue' = r.queue
             /\ call' = [fn |-> "Approve", id |-> id, revision |-> revision,
                         bip |-> bip, err |-> r.err]
    /\ UNCHANGED <<builderVars, pc, useLLM, args, fileIdx, lines, work, k, out,
                   exitStatus, linesRead, rejected, clock, stored, procs, acked>>

CallReject(id) ==
    /\ LET r == Reject(queue, rejected, id, "human", "off topic")
       IN /\ queue' = r.queue
          /\ rejected' = r.rejected
          /\ call' = [fn |-> "Reject", id |-> id, err |-> r.err]
    /\ UNCHANGED <<builderVars, pc, useLLM, args, fileIdx, lines, work, k, out,
                   exitStatus, linesRead, clock, stored, procs, acked>>

InitQueue == Init

NextQueue ==
    \/ Tick
    \/ \E candidate \in SampleCandidates : CallAdd(candidate)
    \/ \E id \in TargetIDs : CallApprove(id)
    \/ \E id \in TargetIDs : CallReject(id)

SpecQueue == InitQueue /\ [][NextQueue]_vars

\* --------------------------------- the CheckpointStore through its API

\* The last minute of the wall clock of a task.
MaxMinutes == 11

\* Checkpoints a task hands to Write and WriteForced.
TaskCheckpoints == {TaskCheckpoint(n, 2, NoBudget, 0, <<>>) : n \in 0..1}

\* The successful Write on record, and whether the file was deleted since.
LastWrite == {a \in acked : a.op = "Write"}
DeletedSince == \E a \in acked : a.op = "Delete"
PreviousWrite == IF LastWrite = {} THEN -1 ELSE (CHOOSE a \in LastWrite : TRUE).at

\* A minute of the task passes.
Wait ==
    /\ clock < MaxMinutes
    /\ clock' = clock + 1
    /\ UNCHANGED <<builderVars, runVars, queue, rejected, stored, procs, acked>>

CallWrite(checkpoint) ==
    /\ LET r == Write(stored, checkpoint, clock)
       IN /\ stored' = r.stored
          /\ call' = [fn |-> "Write", at |-> clock, err |-> r.err,
                      previous |-> PreviousWrite, deleted |-> DeletedSince]
          /\ acked' = IF r.err = "" THEN {[op |-> "Write", at |-> clock]} ELSE acked
    /\ UNCHANGED <<builderVars, pc, useLLM, args, fileIdx, lines, work, k, out,
                   exitStatus, linesRead, queue, rejected, clock, procs>>

CallWriteForced(checkpoint) ==
    /\ LET r == WriteForced(stored, checkpoint, clock)
       IN /\ stored' = r.stored
          /\ call' = [fn |-> "WriteForced", at |-> clock, err |-> r.err]
    /\ UNCHANGED <<builderVars, pc, useLLM, args, fileIdx, lines, work, k, out,
                   exitStatus, linesRead, queue, rejected, clock, procs, acked>>

CallDelete ==
    /\ LET r == Delete(stored)
       IN /\ stored' = r.stored
          /\ call' = [fn |-> "Delete", at |-> clock, err |-> r.err]
    /\ acked' = IF LastWrite = {} THEN acked
                ELSE acked \cup {[op |-> "Delete", at |-> PreviousWrite]}
    /\ UNCHANGED <<builderVars, pc, useLLM, args, fileIdx, lines, work, k, out,
                   exitStatus, linesRead, queue, rejected, clock, procs>>

InitCheckpoint == Init

NextCheckpoint ==
    \/ Wait
    \/ \E checkpoint \in TaskCheckpoints : CallWrite(checkpoint)
    \/ \E checkpoint \in TaskCheckpoints : CallWriteForced(checkpoint)
    \/ CallDelete

SpecCheckpoint == InitCheckpoint /\ [][NextCheckpoint]_vars

\* -------------------------------- the BlockingDetector through its API

\* Most blocked items of a checkpoint handed to the detector.
MaxBlocked == 2

\* What the detector is asked about: blocked items of several ages in
\* minutes, iteration counts below and at the limit, a cost below and at the
\* budget or no budget.
BlockedAges == {0, 30, 31}
BlockedNames == {"a", "b"}
BlockedLists(now) ==
    UNION {[1..n -> {[Item |-> i, BlockedAt |-> now - age] :
                        i \in BlockedNames, age \in BlockedAges}] : n \in 0..MaxBlocked}
Budgets == {NoBudget, [present |-> TRUE, value |-> 3]}
DetectorCheckpoints(now) ==
    {TaskCheckpoint(n, 2, budget, cost, blocked) :
        n \in 1..2, budget \in Budgets, cost \in 2..3, blocked \in BlockedLists(now)}

CallShouldQueueForReview(checkpoint) ==
    /\ call' = [fn |-> "ShouldQueueForReview", checkpoint |-> checkpoint, at |-> clock,
                result |-> ShouldQueueForReview(checkpoint, clock)]
    /\ UNCHANGED <<builderVars, pc, useLLM, args, fileIdx, lines, work, k, out,
                   exitStatus, linesRead, svcVars>>

InitDetector == Init

NextDetector ==
    \/ Tick
    \/ \E checkpoint \in DetectorCheckpoints(clock) : CallShouldQueueForReview(checkpoint)

SpecDetector == InitDetector /\ [][NextDetector]_vars

\* ------------------------------ scribe processes sharing the queue files
\* Each process runs one CandidateService call at a time; a step is one
\* access to a file (or the run of bip), and the steps of the processes
\* interleave freely.  os.Create in writeJSONL truncates the file before the
\* candidates are written; the write then starts at the beginning of the
\* file, over whatever was appended in between.  Approve is the later
\* revision.

\* Most CandidateService calls one process makes.
MaxCalls == 2

\* Candidates and IDs the processes work with.
RaceCandidates == {Candidate(id, CandidateTypePaper, "", id) : id \in {"c1", "c2"}}
RaceIDs == {"c1", "c2"}

\* The other fields of a process's record stay as they are.
At(p, position) == [procs EXCEPT ![p].pc = position]
Return(p) == [procs EXCEPT ![p] = [Idle EXCEPT !.calls = procs[p].calls]]

\* A process that starts a call.
Started(p, op, candidate, id) ==
    [procs EXCEPT ![p] = [op |-> op, pc |-> "find", candidate |-> candidate, id |-> id,
                          read |-> <<>>, calls |-> procs[p].calls + 1]]

procUnchanged ==
    UNCHANGED <<builderVars, runVars, clock, stored>>

StartAdd(p, candidate) ==
    /\ procs[p].pc = "idle"
    /\ procs[p].calls < MaxCalls
    /\ procs' = Started(p, "Add", WithDefaults(candidate, clock),
                        WithDefaults(candidate, clock).ID)
    /\ UNCHANGED <<queue, rejected, acked>>
    /\ procUnchanged

StartApprove(p, id) ==
    /\ procs[p].pc = "idle"
    /\ procs[p].calls < MaxCalls
    /\ procs' = Started(p, "Approve", NoCandidate, id)
    /\ UNCHANGED <<queue, rejected, acked>>
    /\ procUnchanged

StartReject(p, id) ==
    /\ procs[p].pc = "idle"
    /\ procs[p].calls < MaxCalls
    /\ procs' = Started(p, "Reject", NoCandidate, id)
    /\ UNCHANGED <<queue, rejected, acked>>
    /\ procUnchanged

\* Store.FindByID: the queue file is read.  Add goes on when the ID is not
\* there; Approve and Reject go on with the pending candidate found.
StepFind(p) ==
    /\ procs[p].pc = "find"
    /\ LET hit == FindByID(queue, procs[p].id)
       IN procs' =
              IF procs[p].op = "Add"
              THEN IF hit.found THEN Return(p) ELSE At(p, "isRejected")
              ELSE IF ~hit.found \/ hit.candidate.Status # CandidateStatusPending
              THEN Return(p)
              ELSE [procs EXCEPT ![p].pc = "readAll",
                                 ![p].candidate =
                                     IF procs[p].op = "Approve"
                                     THEN Approved(hit.candidate, "human", "")
                                     ELSE Rejected(hit.candidate, "human", "off topic")]
    /\ UNCHANGED <<queue, rejected, acked>>
    /\ procUnchanged

\* Add: Store.IsRejected reads the rejected file.
StepIsRejected(p) ==
    /\ procs[p].pc = "isRejected"
    /\ LET c == procs[p].candidate
       IN procs' = IF getExternalID(c) # "" /\ IsRejected(rejected, getExternalID(c), c.Type)
                   THEN Return(p) ELSE At(p, "append")
    /\ UNCHANGED <<queue, rejected, acked>>
    /\ procUnchanged

\* Add: Store.Append adds the line to the queue file and Add returns nil.
StepAppend(p) ==
    /\ procs[p].pc = "append"
    /\ queue' = Append(queue, procs[p].candidate)
    /\ acked' = acked \cup {[op |-> "Add", id |-> procs[p].id]}
    /\ procs' = Return(p)
    /\ UNCHANGED rejected
    /\ procUnchanged

\* Store.Update: ReadAll reads the queue file and the candidate is replaced
\* in the copy read.
StepReadAll(p) ==
    /\ procs[p].pc = "readAll"
    /\ LET r == Replaced(queue, procs[p].candidate)
       IN procs' = IF r.err # "" THEN Return(p)
                   ELSE [procs EXCEPT ![p].pc = "create", ![p].read = r.candidates]
    /\ UNCHANGED <<queue, rejected, acked>>
    /\ procUnchanged

\* Store.Update, WriteAll: os.Create truncates the queue file.
StepCreate(p) ==
    /\ procs[p].pc = "create"
    /\ queue' = <<>>
    /\ procs' = At(p, "write")
    /\ UNCHANGED <<rejected, acked>>
    /\ procUnchanged

\* Store.Update, WriteAll: the candidates are written.
StepWrite(p) ==
    /\ procs[p].pc = "write"
    /\ queue' = procs[p].read
    /\ procs' = At(p, IF procs[p].op = "Approve" THEN "bip" ELSE "appendRejected")
    /\ UNCHANGED <<rejected, acked>>
    /\ procUnchanged

\* Approve: triggerBipartiteAdd, and Approve returns.
StepBip(p) ==
    /\ procs[p].pc = "bip"
    /\ \E bip \in BipAddAnswers :
          acked' = IF AfterUpdate(RevisionBipartiteReturned, procs[p].candidate, bip) = ""
                   THEN acked \cup {[op |-> "Approve", id |-> procs[p].id]}
                   ELSE acked
    /\ procs' = Return(p)
    /\ UNCHANGED <<queue, rejected>>
    /\ procUnchanged

\* Reject: Store.AppendRejected adds the line to the rejected file and
\* Reject returns nil.
StepAppendRejected(p) ==
    /\ procs[p].pc = "appendRejected"
    /\ rejected' = Append(rejected, procs[p].candidate)
    /\ acked' = acked \cup {[op |-> "Reject", id |-> procs[p].id]}
    /\ procs' = Return(p)
    /\ UNCHANGED queue
    /\ procUnchanged

InitProcesses == Init

NextProcesses ==
    \E p \in Processes :
        \/ \E candidate \in RaceCandidates : StartAdd(p, candidate)
        \/ \E id \in RaceIDs : StartApprove(p, id)
        \/ \E id \in RaceIDs : StartReject(p, id)
        \/ StepFind(p)
        \/ StepIsRejected(p)
        \/ StepAppend(p)
        \/ StepReadAll(p)
        \/ StepCreate(p)
        \/ StepWrite(p)
        \/ StepBip(p)
        \/ StepAppendRejected(p)

SpecProcesses == InitProcesses /\ [][NextProcesses]_vars

\* ------------------------------------------------------------------ claims

CountStatus(rs, s) == Cardinality({i \in 1..Len(rs) : rs[i].Status = s})

\* C1: the report returned by Build has ExitCode 0 iff Summary.Failed = 0 and
\* ExitCode 1 otherwise, and the exit code is decided by the presence of a
\* fail outcome alone: warn and pass outcomes never change it.
C1_ExitCodeLaw ==
    report.built =>
        /\ report.ExitCode \in {0, 1}
        /\ (report.ExitCode = 0) <=> (report.Summary.Failed = 0)
        /\ (report.ExitCode = 1) <=>
               (\E i \in 1..Len(report.Results) :
                    report.Results[i].Status = CheckStatusFail)

\* A report with warnings and no failure was built.
C1_Witness ==
    /\ report.built
    /\ CountStatus(report.Results, CheckStatusWarn) > 0
    /\ CountStatus(report.Results, CheckStatusFail) = 0
    /\ report.ExitCode = 0

\* C2: the summary computed by Build is the partition of the outcome list by
\* status, and TotalChecks = Passed + Failed + Warnings = length of the list.
C2_SummaryPartition ==
    report.built =>
        /\ report.Summary.Passed = CountStatus(report.Results, CheckStatusPass)
        /\ report.Summary.Failed = CountStatus(report.Results, CheckStatusFail)
        /\ report.Summary.Warnings = CountStatus(report.Results, CheckStatusWarn)
        /\ report.Summary.TotalChecks = Len(report.Results)
        /\ report.Summary.TotalChecks =
               report.Summary.Passed + report.Summary.Failed + report.Summary.Warnings

\* A report over one outcome of each status was built.
C2_Witness ==
    /\ report.built
    /\ report.Summary.Passed = 1
    /\ report.Summary.Failed = 1
    /\ report.Summary.Warnings = 1


\* The last call was one of VerifyClaim.
ClaimCalled == call.fn = "VerifyClaim"

\* The confidence and the suggested action an outcome's claim details carry.
ConfidenceOf(r) == r.Details.Claim.Confidence
ActionOf(r) == r.Details.Claim.SuggestedAction

C4_AdjacentCitationExempts ==
    ClaimCalled =>
        LET preceding == call.line - 1
            marked == \/ HasCiteMarker(call.sentence)
                      \/ (preceding >= 1 /\ HasCiteMarker(lines[preceding]))
        IN marked => call.result.Status # CheckStatusFail

\* C5: AnalyzeClaimWithHeuristics applies its tiers in strict order: exempt
\* gives (false, high) whatever else matches, else must-cite gives (true,
\* high), else should-cite gives (true, medium), else (false, low). Checked
\* on every sentence VerifyFile hands to the claim verifier.
C5_TierOrder ==
    \A i \in 1..Len(work.claims) :
        LET s == work.claims[i].sentence
            j == AnalyzeClaimWithHeuristics(s)
            exempt == AnyMatch(exemptPatterns, s)
            must == AnyMatch(mustCitePatterns, s)
            should == AnyMatch(shouldCitePatterns, s)
        IN /\ exempt => ~j.needsCitation /\ j.confidence = "high"
           /\ (~exempt /\ must) => j.needsCitation /\ j.confidence = "high"
           /\ (~exempt /\ ~must /\ should) => j.needsCitation /\ j.confidence = "medium"
           /\ (~exempt /\ ~must /\ ~should) => ~j.needsCitation /\ j.confidence = "low"

\* VerifyClaim passed an uncited sentence that matches an exemption, a
\* must-cite and a should-cite pattern at once.
C5_Witness ==
    /\ ClaimCalled
    /\ ~call.hasCitation
    /\ AnyMatch(exemptPatterns, call.sentence)
    /\ AnyMatch(mustCitePatterns, call.sentence)
    /\ AnyMatch(shouldCitePatterns, call.sentence)
    /\ call.result.Status = CheckStatusPass
    /\ ConfidenceOf(call.result) = "high"

\* The final judgment of the last VerifyClaim call, from what the call was
\* given and what the oracle answered: the oracle's when it was consulted
\* and answered with a parsable object, the heuristic one otherwise.
FinalJudgment ==
    LET heur == AnalyzeClaimWithHeuristics(call.sentence)
        reply == AnalyzeClaim(call.llm.reply)
    IN IF call.consulted /\ ~reply.err THEN reply.analysis ELSE heur

C7_EscalationGate ==
    (ClaimCalled /\ ~call.hasCitation) =>
        LET heur == AnalyzeClaimWithHeuristics(call.sentence)
        IN /\ call.consulted =>
                  /\ heur.confidence = "low"
                  /\ call.useLLM
                  /\ IsAvailable(call.llm.path)
           /\ heur.confidence \in {"high", "medium"} =>
                  /\ ~call.consulted
                  /\ (call.result.Status = CheckStatusFail) <=> heur.needsCitation
                  /\ ConfidenceOf(call.result) = heur.confidence
           /\ (~call.useLLM /\ heur.confidence = "low") =>
                  /\ ~call.consulted
                  /\ call.result.Status = CheckStatusPass
                  /\ ConfidenceOf(call.result) = "low"

\* With UseLLM false a low-confidence sentence went through VerifyClaim.
C7_Witness ==
    /\ ClaimCalled
    /\ ~call.hasCitation
    /\ ~call.useLLM
    /\ AnalyzeClaimWithHeuristics(call.sentence).confidence = "low"
    /\ ~call.consulted
    /\ call.result.Status = CheckStatusPass

\* The escalation of the last VerifyClaim call failed: no client could be
\* made, the provider's command failed, or its output did not parse.
OracleFailed ==
    /\ call.escalated
    /\ \/ NewClient(call.llm.clientPath).err
       \/ AnalyzeClaim(call.llm.reply).err

\* C8: when the oracle call of an escalation fails, VerifyClaim still
\* returns an outcome, and it is the heuristic one: pass, confidence low.
C8_OracleFailureSwallowed ==
    (ClaimCalled /\ OracleFailed) =>
        /\ call.result.Status = CheckStatusPass
        /\ ConfidenceOf(call.result) = "low"
        /\ ActionOf(call.result) = "no action needed"
        /\ call.result =
               ClaimOutcome(call.sentence, call.result.File, call.result.Line,
                            AnalyzeClaimWithHeuristics(call.sentence))

\* The provider ran and printed something that is not the expected object.
C8_Witness ==
    /\ ClaimCalled
    /\ call.escalated
    /\ call.consulted
    /\ ~call.llm.reply.err
    /\ AnalyzeClaim(call.llm.reply).err
    /\ call.result.Status = CheckStatusPass

\* The last call was one of the named verifier and returned an outcome.
Returned(fn) == call.fn = fn /\ "result" \in DOMAIN call

ExistsByEstimate ==
    /\ Returned("VerifyCodeLink")
    /\ call.gh.installed
    /\ checkFileExistsAtCommit(call.gh).err = ""
    /\ checkFileExistsAtCommit(call.gh).exists

\* C11 as stated: when the file exists and its line count is only the
\* size-based estimate, VerifyCodeLink returns warn, never fail, with
\* FileExists and LineRangeValid both true, whatever the referenced lines.
C11_EstimateNeverFails ==
    ExistsByEstimate =>
        /\ call.result.Status = CheckStatusWarn
        /\ call.result.Details.CodeLink.FileExists
        /\ call.result.Details.CodeLink.LineRangeValid

\* C12 as stated: for every permalink the extractor accepts, also one
\* whose commit identifier has fewer than 8 hex digits, VerifyCodeLink
\* returns an outcome and never panics, and when the file is reported absent
\* at the commit the outcome is fail.
C12_NeverPanics ==
    /\ pc \notin {"panic", "crashed"}
    /\ call.fn = "VerifyCodeLink" =>
           /\ "result" \in DOMAIN call
           /\ (call.gh.installed /\ ~call.gh.ok /\ Says404(call.gh.stderr)) =>
                  call.result.Status = CheckStatusFail

\* The status of the response the last VerifyURL call obtained: that of the
\* HEAD attempt, or that of the GET attempt made when HEAD got no response.
ObtainedStatus ==
    IF call.http.head # TransportError THEN call.http.head ELSE call.http.get

OutcomesOf(rs, file) == SelectSeq(rs, LAMBDA r : r.File = file)

TokensOf(ws) == {CiteToken(ws[i]) : i \in {n \in 1..Len(ws) : ws[n] \in CiteWords}}

FirstOccurrence(ws, token) ==
    FirstOf({i \in 1..Len(ws) : ws[i] \in CiteWords /\ CiteToken(ws[i]) = token})

\* The citation outcomes among the outcomes of the file being verified.
CitationOutcomes == SelectSeq(out, LAMBDA r : r.CheckType = CheckTypeCitation)

\* C15: ExtractCitations returns every distinct citation token of the text
\* exactly once, in order of first occurrence, and the same list when run
\* again; VerifyFile emits one citation outcome per distinct token of the
\* file, not one per occurrence.
C15_CitationsDeduplicated ==
    LET text == Flatten(lines)
        cs == ExtractCitations(text)
    IN /\ {cs[i] : i \in 1..Len(cs)} = TokensOf(text)
       /\ Len(cs) = Cardinality(TokensOf(text))
       /\ \A i, j \in 1..Len(cs) :
              i < j => FirstOccurrence(text, cs[i]) < FirstOccurrence(text, cs[j])
       /\ work.citations = cs
       /\ pc \in {"urls", "codelinks", "claims", "return"} =>
              /\ Len(CitationOutcomes) = Cardinality(TokensOf(text))
              /\ \A i \in 1..Len(CitationOutcomes) :
                     CitationOutcomes[i].Details.Citation.PaperID = cs[i]

\* A file that cites the same token on both of its lines was verified and
\* has one citation outcome.
C15_Witness ==
    /\ pc = "return"
    /\ Len(lines) = 2
    /\ HasCiteMarker(lines[1])
    /\ HasCiteMarker(lines[2])
    /\ Cardinality(TokensOf(Flatten(lines))) = 1
    /\ Len(CitationOutcomes) = 1

\* C16 as stated: every permalink occurrence ExtractCodeLinks returns has
\* StartLine <= EndLine, and EndLine = StartLine when the URL has a single
\* line anchor.
C16_StartNotAfterEnd ==
    call.fn = "ExtractCodeLinks" =>
        \A i \in 1..Len(call.links) :
            /\ call.links[i].StartLine <= call.links[i].EndLine
            /\ ~PermalinkGroups(call.links[i].FullURL).hasEnd =>
                   call.links[i].EndLine = call.links[i].StartLine

\* The fields of the details of a code-permalink outcome beyond the permalink
\* and the two validity answers.
ExtraCodeLinkFields(r) ==
    DOMAIN r.Details.CodeLink \ {"present", "Permalink", "FileExists", "LineRangeValid"}

\* C17 as stated: every code-permalink outcome whose line count came from the
\* byte-size estimate carries in its details a flag that marks the count as
\* estimated.
C17_EstimateFlagged ==
    ExistsByEstimate =>
        /\ call.result.Details.CodeLink.present
        /\ ExtraCodeLinkFields(call.result) # {}

\* C18 as stated: AddResult is an idempotent append, so that adding an
\* outcome that was already added leaves the outcome list unchanged: the
\* list of a builder never holds the same outcome twice.
C18_AddResultIdempotent ==
    \A i, j \in 1..Len(results) : i # j => results[i] # results[j]

\* The outcomes of a list in another order.
Reorder(rs, p) == [i \in 1..Len(rs) |-> rs[p[i]]]

\* C19: building twice from the same AddResult calls gives the same Summary
\* counts and ExitCode, whether Build is repeated on the same builder or the
\* outcomes were added in another order.
C19_BuildRepeatable ==
    LET again == BuildReport(files, results)
    IN /\ (report.built /\ report.Results = results) =>
              /\ again.Summary = report.Summary
              /\ again.ExitCode = report.ExitCode
       /\ \A p \in Permutations(1..Len(results)) :
              LET other == BuildReport(files, Reorder(results, p))
              IN /\ other.Summary = again.Summary
                 /\ other.ExitCode = again.ExitCode

\* A report was built from three outcomes of three different statuses, the
\* failing one not the last, and the builder still holds them.
C19_Witness ==
    /\ report.built
    /\ report.Results = results
    /\ Len(results) = 3
    /\ {results[i].Status : i \in 1..3} = CheckStatus
    /\ results[1].Status = CheckStatusFail

\* The check kinds, and the kinds whose details variants an outcome carries.
CheckTypes ==
    {CheckTypeCitation, CheckTypeURL, CheckTypeCodeLink, CheckTypeClaim,
     CheckTypeTodoMarker}

VariantsOf(r) ==
    {t \in CheckTypes :
        \/ t = CheckTypeCitation /\ r.Details.Citation.present
        \/ t = CheckTypeURL /\ r.Details.URL.present
        \/ t = CheckTypeCodeLink /\ r.Details.CodeLink.present
        \/ t = CheckTypeClaim /\ r.Details.Claim.present}

\* The outcomes VerifyFiles has produced so far and those of the built report.
ProducedOutcomes ==
    {results[i] : i \in 1..Len(results)}
        \cup {report.Results[i] : i \in 1..Len(report.Results)}

\* C20: every outcome VerifyFiles produces has one of the five check kinds
\* and carries no details variant of another kind; the outcome of a reference
\* found in a line carries the variant of its own kind (a todo-marker has
\* none), and the outcome created for an unreadable file carries none.
C20_DetailsMatchKind ==
    \A r \in ProducedOutcomes :
        /\ r.CheckType \in CheckTypes
        /\ VariantsOf(r) \subseteq {r.CheckType}
        /\ (r.Line > 0 /\ r.CheckType # CheckTypeTodoMarker) =>
               VariantsOf(r) = {r.CheckType}
        /\ (r.Line = 0 \/ r.CheckType = CheckTypeTodoMarker) => VariantsOf(r) = {}

\* A built report holds the outcome of an unreadable file next to an outcome
\* that carries the details of its kind.
C20_Witness ==
    /\ pc = "built"
    /\ \E i, j \in 1..Len(report.Results) :
          /\ report.Results[i].Line = 0
          /\ report.Results[i].CheckType = CheckTypeCitation
          /\ VariantsOf(report.Results[i]) = {}
          /\ VariantsOf(report.Results[j]) = {report.Results[j].CheckType}

\* C21: an uncited claim detected with medium confidence yields a claim
\* outcome of status warn, and a claim outcome fails only when the uncited
\* claim was detected with high confidence.
C21_MediumConfidenceWarns ==
    \A r \in ProducedOutcomes :
        (r.CheckType = CheckTypeClaim /\ r.Details.Claim.SuggestedAction = "add citation") =>
            /\ r.Details.Claim.Confidence = "medium" => r.Status = CheckStatusWarn
            /\ r.Status = CheckStatusFail => r.Details.Claim.Confidence = "high"

\* The status of the queue's candidate with the ID, "" when there is none.
StatusOf(q, id) == IF FindByID(q, id).found THEN FindByID(q, id).candidate.Status ELSE ""

\* C22: through CandidateService a candidate's status changes only from
\* pending to approved or from pending to rejected; Approve or Reject of an
\* ID that is not in the queue or is not pending returns an error and leaves
\* the queue and the rejected list as they were; no candidate leaves the
\* queue.
C22_StatusTransitions ==
    [][/\ \A i \in 1..Len(queue) :
             /\ i <= Len(queue')
             /\ queue'[i].ID = queue[i].ID
             /\ queue'[i].Status # queue[i].Status =>
                   /\ queue[i].Status = CandidateStatusPending
                   /\ queue'[i].Status \in {CandidateStatusApproved, CandidateStatusRejected}
                   /\ call'.fn = (IF queue'[i].Status = CandidateStatusApproved
                                  THEN "Approve" ELSE "Reject")
       /\ \A id \in TargetIDs :
             (/\ CallApprove(id) \/ CallReject(id)
              /\ StatusOf(queue, id) # CandidateStatusPending) =>
                 /\ call'.err # ""
                 /\ queue' = queue
                 /\ rejected' = rejected]_vars

\* An approved and a rejected candidate are in the queue and the last call,
\* an Approve of one of them, returned an error.
C22_Witness ==
    /\ \E i, j \in 1..Len(queue) :
          /\ queue[i].Status = CandidateStatusApproved
          /\ queue[i].ReviewedBy = "human"
          /\ queue[j].Status = CandidateStatusRejected
    /\ call.fn = "Approve"
    /\ StatusOf(queue, call.id) # CandidateStatusPending
    /\ call.id # "c9"
    /\ call.err = "not pending"

\* The candidates Reject has put on the rejected list that have the type
\* and the external identifier of c.
RejectedLike(c) ==
    {i \in 1..Len(rejected) :
        /\ rejected[i].Type = c.Type
        /\ c.Type \in {CandidateTypePaper, CandidateTypeRepo, CandidateTypeCodeLocation}
        /\ getExternalID(rejected[i]) = getExternalID(c)}

\* C23: once Reject has succeeded for a paper, repo or code-location
\* candidate, no later Add of a candidate of the same type and external ID
\* succeeds, whatever its candidate ID: an Add that returned success added a
\* candidate unlike every rejected one.
C23_RejectedNeverReAdded ==
    (call.fn = "Add" /\ call.err = "") =>
        RejectedLike(FindByID(queue, call.id).candidate) = {}

\* C24: after any series of Add, Approve and Reject calls made one after
\* the other, no two candidates of the queue share an ID; an Add whose ID,
\* supplied or generated from the minute of the clock, is already in the
\* queue returns an error and leaves the queue as it was.
C24_UniqueIDs ==
    [][/\ \A i, j \in 1..Len(queue') : queue'[i].ID = queue'[j].ID => i = j
       /\ \A candidate \in SampleCandidates :
             (/\ CallAdd(candidate)
              /\ FindByID(queue, WithDefaults(candidate, clock).ID).found) =>
                 /\ call'.err = "already exists"
                 /\ queue' = queue]_vars

\* An Add without an ID was refused because the ID generated for this minute
\* is in the queue.
C24_Witness ==
    /\ call.fn = "Add"
    /\ call.id = GenerateID(clock)
    /\ call.err = "already exists"
    /\ FindByID(queue, GenerateID(clock)).found

\* C25: an Approve of a pending paper or repo candidate reports success only
\* if the candidate is stored as approved and the add to bipartite
\* succeeded; with bip missing or its add command failing it returns an
\* error.
C25_ApproveNeedsBipartite ==
    LET c == FindByID(queue, call.id).candidate
    IN (/\ call.fn = "Approve"
        /\ call.err = ""
        /\ c.Type \in {CandidateTypePaper, CandidateTypeRepo}) =>
           /\ c.Status = CandidateStatusApproved
           /\ triggerBipartiteAdd(c, call.bip) = ""

C27_HeadThenGet ==
    Returned("VerifyURL") =>
        LET rq == call.requests
            http == call.http
            gets == {i \in 1..Len(rq) : rq[i] = "GET"}
        IN /\ http.valid => (Len(rq) >= 1 /\ rq[1] = "HEAD")
           /\ gets \subseteq {2}
           /\ gets # {} => http.head = TransportError
           /\ Len(rq) <= 2
           /\ (http.valid /\ http.head # TransportError) =>
                  /\ rq = <<"HEAD">>
                  /\ call.result.Details.URL.HasStatus
                  /\ call.result.Details.URL.HTTPStatus = http.head
           /\ call.result.Message.format = "URL is not accessible" <=>
                  /\ http.valid
                  /\ rq = <<"HEAD", "GET">>
                  /\ http.head = TransportError
                  /\ http.get = TransportError

\* The HEAD attempt got no response, the GET attempt got a 200, and the
\* outcome passes with that status.
C27_Witness ==
    /\ Returned("VerifyURL")
    /\ call.requests = <<"HEAD", "GET">>
    /\ call.http.head = TransportError
    /\ call.http.get = 200
    /\ call.result.Status = CheckStatusPass
    /\ call.result.Details.URL.HTTPStatus = 200

\* The three conditions of the last ShouldQueueForReview call, in the
\* order of the claim.
BlockedTooLong ==
    {i \in 1..Len(call.checkpoint.BlockedItems) :
        call.at - call.checkpoint.BlockedItems[i].BlockedAt > 30}
IterationsReached == call.checkpoint.IterationCount >= call.checkpoint.MaxIterations
BudgetReached ==
    /\ call.checkpoint.CostBudgetUSD.present
    /\ call.checkpoint.EstimatedCostUSD >= call.checkpoint.CostBudgetUSD.value

WithoutClaimPasses(rs) ==
    SelectSeq(rs, LAMBDA r : ~(r.CheckType = CheckTypeClaim /\ r.Status # CheckStatusFail))

C30_NoLostUpdate ==
    (\A p \in Processes : procs[p].pc = "idle") =>
        \A a \in acked :
            /\ FindByID(queue, a.id).found
            /\ a.op = "Approve" => StatusOf(queue, a.id) = CandidateStatusApproved
            /\ a.op = "Reject" => StatusOf(queue, a.id) = CandidateStatusRejected

=============================================================================
